---------------------------- MODULE Spec2Model ----------------------------
(***************************************************************************)
(* compactmapper: the CSV grouper (package sorter), the converter, the LAS  *)
(* point codec (package las), the full pipeline of the command line, the   *)
(* window of package gui and the batch command line, as state machines.    *)
(*                                                                         *)
(* A Go string is a sequence of one-character strings, so that len, s[i],  *)
(* s[:n] and concatenation are Len, s[i], SubSeq and \o.  All characters   *)
(* used are ASCII: one character is one byte.                              *)
(***************************************************************************)
EXTENDS Integers, Sequences, FiniteSets, TLC

VARIABLES
    fnCall,     \* KeyExtractor harness: the pending call [fn, ...arguments]
    fnRet,      \* KeyExtractor harness: its return value, or NoRet
    pc,         \* SortCSV: "idle", "read" (row loop), "write" (group loop), "done"
    src,        \* SortCSV: the parsed input source [header, rows]
    skipErrors, \* SortCSV: the skipErrors argument
    errorLog,   \* SortCSV: the errorLog handle (open: not nil) and the lines written to it
    pos,        \* SortCSV: csv reader position, the index of the next row of src
    chunk,      \* SortCSV: the rows of the current chunk
    rowCount,   \* SortCSV: rows appended to chunks so far
    skippedRows,\* SortCSV: rows skipped so far
    groups,     \* SortCSV: map GroupKey -> rows
    todo,       \* SortCSV: keys the range loop over groups has yet to visit
    ret,        \* SortCSV: "none", "ok" (nil) or "err"
    dir,        \* the output directory: artifact name -> its records
    dir0,       \* the output directory as it was when SortCSV was called
    dirAt,      \* the output directory at each call of SortCSV so far
    chunkSize,  \* SortCSV: the ChunkSize the package is built with
    writer,     \* las.Writer: [points, minX, minY, minZ, maxX, maxY, maxZ]
    disk,       \* the file at the LAS path: [exists, bytes]
    disk0,      \* that file as it was when Writer.Write was called
    writeRet,   \* Writer.Write: "none", "ok" (nil) or "err"
    rd,         \* las.Reader returned by NewReader: [open, header, offset of its file,
                \* calls of ReadPoints so far], or NoReader (nil)
    newRet,     \* NewReader: "none", "ok" or "err"
    handles,    \* number of open handles on the file
    readRet,    \* Reader.ReadPoints: [status, points]
    ppc,        \* runFullPipeline: "off", "sort" (step 1), "convert" (step 2), "exit"
    input,      \* runFullPipeline: [isDirectory, files], the sources at the input path
    pipeSkipErrors, \* runFullPipeline: the skipErrors argument
    pending,    \* step 1: the sources still to be passed to SortCSV
    files,      \* ConvertDirectory: the names of the CSV files still to be converted
    lasDir,     \* the LAS directory: artifact name -> the points written to it
    successCount, \* ConvertDirectory: files converted so far
    exitCode,   \* the exit code of the process: 0, 1, or -1 while it runs
    gui,        \* gui.Run: [inputPath, outputPath, isDirectory, skipErrors, inputLabel,
                \* statusLabel, dialog]
    tasks,      \* gui.Run: the goroutines started by processBtn, each with its
                \* position (at) and its local variables
    outputDir,  \* gui.Run: folder -> the files under it, [errLog, csv, las]
    gestures,   \* gui harness: the selections, drops and check box changes so far
    cli         \* batch CLI: [files, skipErrors, i, errs, successCount, stdout, errorLog, exit]

kvars == <<fnCall, fnRet>>
svars == <<pc, src, skipErrors, errorLog, pos, chunk, rowCount, skippedRows, groups,
           todo, ret, dir, dir0, dirAt, chunkSize>>
lvars == <<writer, disk, disk0, writeRet, rd, newRet, handles, readRet>>
pvars == <<ppc, input, pipeSkipErrors, pending, files, lasDir, successCount, exitCode>>
gvars == <<gui, tasks, outputDir, gestures>>
bvars == <<cli>>
vars == <<fnCall, fnRet, pc, src, skipErrors, errorLog, pos, chunk, rowCount,
          skippedRows, groups, todo, ret, dir, dir0, dirAt, chunkSize,
          writer, disk, disk0, writeRet, rd, newRet, handles, readRet,
          ppc, input, pipeSkipErrors, pending, files, lasDir, successCount, exitCode,
          gui, tasks, outputDir, gestures, cli>>

\* package sorter, line 17.  A source of the model stays far below ChunkSize
\* rows, so the package as built handles it as one chunk; the row loop is also
\* run as built with a ChunkSize of SmallChunkSize, where the sources span
\* several chunks
ChunkSize == 10000
SmallChunkSize == 2
ChunkSizes == {ChunkSize, SmallChunkSize}

NoRet == [none |-> TRUE]
NoLog == [open |-> FALSE, lines |-> <<>>]
OpenLog == [open |-> TRUE, lines |-> <<>>]
NoSource == [header |-> <<>>, rows |-> <<>>]
EmptyMap == <<>>
NoWriter == [points |-> <<>>]
NoFile == [exists |-> FALSE, bytes |-> <<>>]
NoHeader ==
    [VersionMajor |-> 0, VersionMinor |-> 0, PointFormat |-> 0, PointCount |-> 0,
     PointRecordLength |-> 0]
NoReader == [nil |-> TRUE, open |-> FALSE, header |-> NoHeader, offset |-> 0, calls |-> 0]
NoRead == [status |-> "none", points |-> <<>>]
NoInput == [isDirectory |-> FALSE, files |-> <<>>]
NoGui == [off |-> TRUE]
NoKey == [Date |-> <<>>, DesignName |-> <<>>, Amp |-> <<>>]
NoOutputDir == [off |-> TRUE]
NoCli == [off |-> TRUE]

\* the values of one component's variables while another component runs
KeyIdle == fnCall = [fn |-> "none"] /\ fnRet = NoRet
SortIdle ==
    /\ pc = "off" /\ src = NoSource /\ skipErrors = FALSE /\ errorLog = NoLog
    /\ pos = 0 /\ chunk = <<>> /\ rowCount = 0 /\ skippedRows = 0
    /\ groups = EmptyMap /\ todo = {} /\ ret = "none"
    /\ dir = EmptyMap /\ dir0 = EmptyMap /\ dirAt = <<>>
    /\ chunkSize = ChunkSize
LasIdle ==
    /\ writer = NoWriter /\ disk = NoFile /\ disk0 = NoFile /\ writeRet = "none"
    /\ rd = NoReader /\ newRet = "none" /\ handles = 0 /\ readRet = NoRead
PipeIdle ==
    /\ ppc = "off" /\ input = NoInput /\ pipeSkipErrors = FALSE /\ pending = <<>>
    /\ files = <<>> /\ lasDir = EmptyMap /\ successCount = 0 /\ exitCode = -1
GuiIdle == gui = NoGui /\ tasks = <<>> /\ outputDir = NoOutputDir /\ gestures = 0
CliIdle == cli = NoCli

(***************************************************************************)
(* Strings                                                                 *)
(***************************************************************************)
Digit == {"0", "1", "2", "3", "4", "5", "6", "7", "8", "9"}
DigitChars == <<"0", "1", "2", "3", "4", "5", "6", "7", "8", "9">>
DigitVal(c) == (CHOOSE i \in 1..10 : DigitChars[i] = c) - 1
DigitChar(n) == DigitChars[n + 1]

Take(s, n) == SubSeq(s, 1, IF n < Len(s) THEN n ELSE Len(s))
Drop(s, n) == SubSeq(s, n + 1, Len(s))

RECURSIVE Concat(_)
Concat(ss) == IF ss = <<>> THEN <<>> ELSE Head(ss) \o Concat(Tail(ss))

\* strings.ReplaceAll(s, old, "") for a one-character old
RECURSIVE ReplaceAllChar(_, _)
ReplaceAllChar(s, old) ==
    IF s = <<>> THEN <<>>
    ELSE IF Head(s) = old THEN ReplaceAllChar(Tail(s), old)
    ELSE <<Head(s)>> \o ReplaceAllChar(Tail(s), old)

(***************************************************************************)
(* time.Parse("2006/Jan/02 15:04:05.999", value), as the Go library parses *)
(* this layout: the chunks stdLongYear "/" stdMonth "/" stdZeroDay " "     *)
(* stdHour ":" stdZeroMinute ":" stdZeroSecond stdFracSecond9.             *)
(***************************************************************************)
shortMonthNames ==
    << <<"j", "a", "n">>, <<"f", "e", "b">>, <<"m", "a", "r">>, <<"a", "p", "r">>,
       <<"m", "a", "y">>, <<"j", "u", "n">>, <<"j", "u", "l">>, <<"a", "u", "g">>,
       <<"s", "e", "p">>, <<"o", "c", "t">>, <<"n", "o", "v">>, <<"d", "e", "c">> >>

UpperLetters == <<"A", "B", "C", "D", "E", "F", "G", "H", "I", "J", "K", "L", "M",
                  "N", "O", "P", "Q", "R", "S", "T", "U", "V", "W", "X", "Y", "Z">>
LowerLetters == <<"a", "b", "c", "d", "e", "f", "g", "h", "i", "j", "k", "l", "m",
                  "n", "o", "p", "q", "r", "s", "t", "u", "v", "w", "x", "y", "z">>

\* time.match compares ASCII letters without regard to case
FoldChar(c) ==
    IF \E i \in 1..Len(UpperLetters) : UpperLetters[i] = c
    THEN LowerLetters[CHOOSE i \in 1..Len(UpperLetters) : UpperLetters[i] = c]
    ELSE c

Fold(s) == [i \in 1..Len(s) |-> FoldChar(s[i])]

isDigit(s, i) == i <= Len(s) /\ s[i] \in Digit

ParseFail == [ok |-> FALSE, n |-> 0, rest |-> <<>>]

\* time.getnum: one or two digits; exactly two when fixed
getnum(s, fixed) ==
    IF ~isDigit(s, 1) THEN ParseFail
    ELSE IF ~isDigit(s, 2)
         THEN IF fixed THEN ParseFail
              ELSE [ok |-> TRUE, n |-> DigitVal(s[1]), rest |-> Drop(s, 1)]
         ELSE [ok |-> TRUE, n |-> DigitVal(s[1]) * 10 + DigitVal(s[2]), rest |-> Drop(s, 2)]

\* stdLongYear: four characters, all digits (time.atoi rejects anything else)
getyear(s) ==
    IF Len(s) >= 4 /\ \A i \in 1..4 : s[i] \in Digit
    THEN [ok |-> TRUE,
          n |-> DigitVal(s[1]) * 1000 + DigitVal(s[2]) * 100
                + DigitVal(s[3]) * 10 + DigitVal(s[4]),
          rest |-> Drop(s, 4)]
    ELSE ParseFail

\* stdMonth: time.lookup(shortMonthNames, value)
lookupMonth(s) ==
    IF Len(s) >= 3 /\ \E m \in 1..12 : shortMonthNames[m] = Fold(Take(s, 3))
    THEN [ok |-> TRUE,
          n |-> CHOOSE m \in 1..12 : shortMonthNames[m] = Fold(Take(s, 3)),
          rest |-> Drop(s, 3)]
    ELSE ParseFail

RECURSIVE cutspace(_)
cutspace(s) == IF s # <<>> /\ Head(s) = " " THEN cutspace(Tail(s)) ELSE s

\* time.skip(value, prefix) for a one-character prefix: a space of the layout
\* matches any run of spaces, every other character matches itself
skip(s, c) ==
    IF c = " "
    THEN IF s # <<>> /\ Head(s) # " " THEN ParseFail
         ELSE [ok |-> TRUE, n |-> 0, rest |-> cutspace(s)]
    ELSE IF s = <<>> \/ Head(s) # c THEN ParseFail
         ELSE [ok |-> TRUE, n |-> 0, rest |-> Tail(s)]

commaOrPeriod(c) == c = "." \/ c = ","

RECURSIVE digitsRun(_, _)
digitsRun(s, i) == IF isDigit(s, i) THEN 1 + digitsRun(s, i + 1) ELSE 0

\* time.parseNanoseconds(value, 4), as stdFracSecond0 of a layout ".000" calls
\* it: a separator and three characters that time.atoi takes, three digits or
\* a sign and two digits, of a value that is not negative
parseNanoseconds(s) ==
    /\ Len(s) >= 4
    /\ commaOrPeriod(s[1])
    /\ \/ \A i \in 2..4 : s[i] \in Digit
       \/ s[2] = "+" /\ s[3] \in Digit /\ s[4] \in Digit
       \/ s[2] = "-" /\ s[3] = "0" /\ s[4] = "0"

\* stdFracSecond0, what the layout ".000" would ask for: a fraction of four
\* characters, and a failure (text left over) when it is missing
fracSecond0(s) == IF parseNanoseconds(s) THEN Drop(s, 4) ELSE <<"!">>

\* stdFracSecond9: an optional fraction, of any number of digits
fracSecond9(s) ==
    IF Len(s) < 2 \/ ~commaOrPeriod(s[1]) \/ ~isDigit(s, 2)
    THEN s
    ELSE Drop(s, 1 + digitsRun(s, 2))

isLeap(year) == year % 4 = 0 /\ (year % 100 # 0 \/ year % 400 = 0)

daysIn(m, year) ==
    IF m = 2 THEN (IF isLeap(year) THEN 29 ELSE 28)
    ELSE IF m \in {4, 6, 9, 11} THEN 30 ELSE 31

\* The parse state: what is left of value, and the fields parsed so far
parseStart(value) ==
    [ok |-> TRUE, rest |-> value, year |-> 0, month |-> 0, day |-> 0]

parseYear(p) ==
    IF ~p.ok THEN p
    ELSE LET r == getyear(p.rest)
         IN  [p EXCEPT !.ok = r.ok, !.rest = r.rest, !.year = r.n]

parseLiteral(p, c) ==
    IF ~p.ok THEN p
    ELSE LET r == skip(p.rest, c)
         IN  [p EXCEPT !.ok = r.ok, !.rest = r.rest]

parseMonth(p) ==
    IF ~p.ok THEN p
    ELSE LET r == lookupMonth(p.rest)
         IN  [p EXCEPT !.ok = r.ok, !.rest = r.rest, !.month = r.n]

parseDay(p) ==
    IF ~p.ok THEN p
    ELSE LET r == getnum(p.rest, TRUE)
         IN  [p EXCEPT !.ok = r.ok, !.rest = r.rest, !.day = r.n]

\* stdHour (limit 24, one or two digits), stdZeroMinute and stdZeroSecond
\* (limit 60, two digits)
parseClock(p, fixed, limit) ==
    IF ~p.ok THEN p
    ELSE LET r == getnum(p.rest, fixed)
         IN  [p EXCEPT !.ok = r.ok /\ r.n < limit, !.rest = r.rest]

parseFraction(p) ==
    IF ~p.ok THEN p ELSE [p EXCEPT !.rest = fracSecond9(p.rest)]

\* no text may be left over, and the day must exist in the month
parseEnd(p) ==
    [p EXCEPT !.ok = /\ p.ok
                     /\ p.rest = <<>>
                     /\ p.day >= 1 /\ p.day <= daysIn(p.month, p.year)]

timeParse(value) ==
    parseEnd(parseFraction(
        parseClock(parseLiteral(
        parseClock(parseLiteral(
        parseClock(parseLiteral(
        parseDay(parseLiteral(
        parseMonth(parseLiteral(
        parseYear(parseStart(value)),
        "/")), "/")), " "), FALSE, 24), ":"), TRUE, 60), ":"), TRUE, 60)))

\* t.Format("2006-01-02")
timeFormat(t) ==
    <<DigitChar(t.year \div 1000), DigitChar((t.year \div 100) % 10),
      DigitChar((t.year \div 10) % 10), DigitChar(t.year % 10), "-",
      DigitChar(t.month \div 10), DigitChar(t.month % 10), "-",
      DigitChar(t.day \div 10), DigitChar(t.day % 10)>>

(***************************************************************************)
(* package sorter: key derivation and artifact naming                      *)
(***************************************************************************)
parseDate(timeStr) ==
    LET t == timeParse(timeStr)
    IN  IF ~t.ok THEN [err |-> TRUE, date |-> <<>>]
        ELSE [err |-> FALSE, date |-> timeFormat(t)]

no_amp == <<"n", "o", "_", "a", "m", "p">>

\* the slip of cutting to three characters before the decimal points are removed
normalizeAmpCutFirst(amp) ==
    IF amp = <<>> \/ amp = <<"?">> THEN no_amp
    ELSE ReplaceAllChar(Take(amp, 3), ".")

normalizeAmp(amp) ==
    IF amp = <<>> \/ amp = <<"?">> THEN no_amp
    ELSE LET normalized == ReplaceAllChar(amp, ".")
         IN  IF Len(normalized) > 3 THEN SubSeq(normalized, 1, 3) ELSE normalized

InvalidFilenameChars == {"<", ">", ":", "\"", "/", "\\", "|", "?", "*"}

\* the slip of an unescaped backslash in the character class
sanitizeFilenameNoBackslash(filename) ==
    SelectSeq(filename, LAMBDA c : c \notin (InvalidFilenameChars \ {"\\"}))

sanitizeFilename(filename) == SelectSeq(filename, LAMBDA c : c \notin InvalidFilenameChars)

StrDesign == <<"d", "e", "s", "i", "g", "n">>
StrAmp == <<"a", "m", "p">>
StrCsv == <<".", "c", "s", "v">>

generateFilename(date, design, amp) ==
    IF amp = no_amp
    THEN date \o StrDesign \o design \o StrAmp \o StrCsv
    ELSE date \o StrDesign \o design \o StrAmp \o amp \o StrCsv

(***************************************************************************)
(* package converter: the colour rule                                      *)
(***************************************************************************)
\* the slip of <= for <: a tie is coloured red
determineColorTieRed(passCount, targPass) ==
    IF passCount <= targPass THEN <<65535, 0, 0>>
    ELSE IF passCount = targPass THEN <<0, 65535, 0>>
    ELSE <<0, 0, 65535>>

determineColor(passCount, targPass) ==
    IF passCount < targPass THEN <<65535, 0, 0>>
    ELSE IF passCount = targPass THEN <<0, 65535, 0>>
    ELSE <<0, 0, 65535>>

(***************************************************************************)
(* KeyExtractor harness: one call of one of the pure functions, on an      *)
(* argument drawn from a bounded pool.                                     *)
(***************************************************************************)
\* Timestamps: a base string with its parts varied
TsYear == { <<"2", "0", "2", "5">>, <<"2", "0", "2", "4">>, <<"2", "5">>,
            <<"2", "0", "a", "5">> }
TsMonth == { <<"O", "c", "t">>, <<"F", "e", "b">>, <<"A", "p", "r">>, <<"D", "e", "c">>,
             <<"o", "c", "t">>, <<"X", "y", "z">>, <<"1", "0">>, <<"O", "c", "t", "o">> }
TsDay == { <<"0", "1">>, <<"2", "9">>, <<"3", "0">>, <<"3", "1">>, <<"0", "0">>,
           <<"1">>, <<"3", "2">> }
TsDateSep == { <<"/">>, <<"-">>, <<".">>, <<>> }
TsSpace == { <<" ">>, <<" ", " ">>, <<"T">>, <<"_">>, <<>> }
TsHour == { <<"0", "9">>, <<"2", "3">>, <<"2", "4">>, <<"9">>, <<>> }
TsMinSec == { <<"3", "0">>, <<"5", "9">>, <<"6", "0">>, <<"5">> }
TsTimeSep == { <<":">>, <<".">>, <<"-">>, <<>> }
TsFrac == { <<".", "8", "0", "0">>, <<>>, <<".", "8">>, <<".", "8", "0">>,
            <<".", "8", "0", "0", "0", "0">>,
            <<".", "1", "2", "3", "4", "5", "6", "7", "8", "9", "0", "1">>,
            <<",", "8", "0", "0">>, <<".">>, <<":", "8", "0", "0">>,
            <<".", "8", "0", "0", "Z">>, <<".", "x">> }

Timestamp(y, a, mo, b, d, sp, h, c, mi, e, se, fr) ==
    Concat(<<y, a, mo, b, d, sp, h, c, mi, e, se, fr>>)

BaseYear == <<"2", "0", "2", "5">>
BaseMonth == <<"O", "c", "t">>
BaseDay == <<"0", "1">>
BaseHour == <<"0", "9">>
BaseMin == <<"3", "0">>
BaseSec == <<"0", "2">>
BaseFrac == <<".", "8", "0", "0">>
Sl == <<"/">>
Sp == <<" ">>
Co == <<":">>

TimeStrings ==
    { Timestamp(y, Sl, mo, Sl, d, Sp, BaseHour, Co, BaseMin, Co, BaseSec, fr) :
        y \in {BaseYear, <<"2", "0", "2", "4">>}, mo \in TsMonth, d \in TsDay, fr \in {BaseFrac, <<>>} }
    \cup { Timestamp(y, Sl, BaseMonth, Sl, BaseDay, Sp, BaseHour, Co, BaseMin, Co, BaseSec, BaseFrac) : y \in TsYear }
    \cup { Timestamp(BaseYear, a, BaseMonth, b, BaseDay, sp, BaseHour, Co, BaseMin, Co, BaseSec, BaseFrac) :
             a \in TsDateSep, b \in TsDateSep, sp \in TsSpace }
    \cup { Timestamp(BaseYear, Sl, BaseMonth, Sl, BaseDay, Sp, h, c, mi, e, se, BaseFrac) :
             h \in TsHour, c \in TsTimeSep, mi \in TsMinSec, e \in {Co}, se \in {BaseSec} }
    \cup { Timestamp(BaseYear, Sl, BaseMonth, Sl, BaseDay, Sp, BaseHour, Co, BaseMin, e, se, fr) :
             e \in TsTimeSep, se \in TsMinSec \cup {BaseSec}, fr \in TsFrac }
    \cup { <<>>, <<"i", "n", "v", "a", "l", "i", "d">>,
           <<"2", "0", "2", "5", "-", "1", "0", "-", "0", "1">> }

AmpStrings ==
    { <<>>, <<"?">>, <<"0", ".", "9", "7">>, <<"0", ".", "5", "5">>, <<"2", ".", "1", "0">>,
      <<"1", ".", "5">>, <<"0", ".", "9", "7", "8", "9">>, <<"0", ".", "9", "9", "9">>,
      <<"1", "5">>, <<"1">>, <<".">>, <<".", ".">>, <<"1", ".", "2", ".", "3", ".", "4">>,
      <<"?", "?">>, <<"9", "7", "8", "9">>, <<"/">>, <<"a", "m", "p">>,
      <<"n", "o", "_", "a", "m", "p">>, <<".", "1", "2", "3", "4">>, <<"1", "2", "3">>,
      <<"1", ".", "0", "*">> }

DateStrings ==
    { <<"2", "0", "2", "5", "-", "1", "0", "-", "0", "1">>,
      <<"2", "0", "2", "4", "-", "1", "2", "-", "3", "1">>, <<>> }

DesignStrings ==
    { <<"D", "e", "s", "i", "g", "n", "1">>, <<"A", "B">>, <<"A", "/", "B">>,
      <<"A", ":", "B">>, <<"A", "\\", "B">>, <<"<", "A", ">">>, <<"\"", "A", "\"">>,
      <<"A", "|", "B", "?">>, <<"*">>, <<"X", "a", "m", "p">>, <<"X">>, <<>>,
      <<"A", "_", "B", "-", "0", "6", "5">> }

KeyAmps == { normalizeAmp(a) : a \in AmpStrings }

MaxCount == 3
Counts == (0 - MaxCount)..MaxCount \cup {0 - 2147483647, 2147483647}

KeyInit ==
    /\ SortIdle
    /\ LasIdle
    /\ PipeIdle
    /\ GuiIdle
    /\ CliIdle
    /\ fnRet = NoRet
    /\ \/ fnCall \in { [fn |-> "parseDate", timeStr |-> s] : s \in TimeStrings }
       \/ fnCall \in { [fn |-> "normalizeAmp", amp |-> a] : a \in AmpStrings }
       \/ fnCall \in { [fn |-> "generateFilename", date |-> d, design |-> g, amp |-> a] :
                         d \in DateStrings, g \in DesignStrings, a \in KeyAmps }
       \/ fnCall \in { [fn |-> "determineColor", passCount |-> p, targPass |-> t] :
                         p \in Counts, t \in Counts }

CallParseDate ==
    /\ fnRet = NoRet /\ fnCall.fn = "parseDate"
    /\ fnRet' = parseDate(fnCall.timeStr)
    /\ UNCHANGED <<fnCall, svars, lvars, pvars, gvars, bvars>>

CallNormalizeAmp ==
    /\ fnRet = NoRet /\ fnCall.fn = "normalizeAmp"
    /\ fnRet' = [amp |-> normalizeAmp(fnCall.amp)]
    /\ UNCHANGED <<fnCall, svars, lvars, pvars, gvars, bvars>>

\* the name SortCSV opens: sanitizeFilename(generateFilename(...))
CallGenerateFilename ==
    /\ fnRet = NoRet /\ fnCall.fn = "generateFilename"
    /\ fnRet' = [filename |-> generateFilename(fnCall.date, fnCall.design, fnCall.amp),
                 sanitized |-> sanitizeFilename(
                                 generateFilename(fnCall.date, fnCall.design, fnCall.amp))]
    /\ UNCHANGED <<fnCall, svars, lvars, pvars, gvars, bvars>>

CallDetermineColor ==
    /\ fnRet = NoRet /\ fnCall.fn = "determineColor"
    /\ fnRet' = [rgb |-> determineColor(fnCall.passCount, fnCall.targPass)]
    /\ UNCHANGED <<fnCall, svars, lvars, pvars, gvars, bvars>>

KeyNext ==
    \/ CallParseDate
    \/ CallNormalizeAmp
    \/ CallGenerateFilename
    \/ CallDetermineColor

SpecKey == KeyInit /\ [][KeyNext]_vars

Returned(f) == fnCall.fn = f /\ fnRet # NoRet

(***************************************************************************)
(* KeyExtractor properties                                                 *)
(***************************************************************************)
\* the positions of s whose character is not in bad, and the i-th of them
KeptPositions(s, bad) == {j \in 1..Len(s) : s[j] \notin bad}
NthKept(s, bad, i) ==
    CHOOSE j \in KeptPositions(s, bad) :
        Cardinality({k \in KeptPositions(s, bad) : k <= j}) = i
\* r is s with every character of bad removed, cut to at most max characters
IsFilteredPrefix(r, s, bad, max) ==
    /\ Len(r) = (IF Cardinality(KeptPositions(s, bad)) < max
                 THEN Cardinality(KeptPositions(s, bad)) ELSE max)
    /\ \A i \in 1..Len(r) : r[i] = s[NthKept(s, bad, i)]

MonthAbbrevs ==
    << <<"J", "a", "n">>, <<"F", "e", "b">>, <<"M", "a", "r">>, <<"A", "p", "r">>,
       <<"M", "a", "y">>, <<"J", "u", "n">>, <<"J", "u", "l">>, <<"A", "u", "g">>,
       <<"S", "e", "p">>, <<"O", "c", "t">>, <<"N", "o", "v">>, <<"D", "e", "c">> >>
CalendarDays == <<31, 28, 31, 30, 31, 30, 31, 31, 30, 31, 30, 31>>
AllDigits(s, from, to) == \A i \in from..to : s[i] \in Digit
Num2(s, i) == DigitVal(s[i]) * 10 + DigitVal(s[i + 1])
Num4(s, i) == Num2(s, i) * 100 + Num2(s, i + 2)
MonthOf(s) == CHOOSE m \in 1..12 : Fold(MonthAbbrevs[m]) = Fold(SubSeq(s, 6, 8))
DaysOf(m, y) ==
    IF m = 2 /\ y % 4 = 0 /\ (y % 100 # 0 \/ y % 400 = 0) THEN 29 ELSE CalendarDays[m]

\* "YYYY/Mon/DD HH:MM:SS" at positions 1..20, a valid date and time of day
FixedPrefix(s) ==
    /\ Len(s) >= 20
    /\ AllDigits(s, 1, 4) /\ s[5] = "/"
    /\ \E m \in 1..12 : MonthAbbrevs[m] = SubSeq(s, 6, 8)
    /\ s[9] = "/" /\ AllDigits(s, 10, 11) /\ s[12] = " "
    /\ AllDigits(s, 13, 14) /\ s[15] = ":" /\ AllDigits(s, 16, 17)
    /\ s[18] = ":" /\ AllDigits(s, 19, 20)
    /\ Num2(s, 10) >= 1 /\ Num2(s, 10) <= DaysOf(MonthOf(s), Num4(s, 1))
    /\ Num2(s, 13) < 24 /\ Num2(s, 16) < 60 /\ Num2(s, 19) < 60

\* the fixed format YYYY/Mon/DD HH:MM:SS.fff
FixedFormat(s) ==
    Len(s) = 24 /\ FixedPrefix(s) /\ s[21] = "." /\ AllDigits(s, 22, 24)

\* the fixed format but for its fraction: missing, or of another number of digits
FractionVariant(s) ==
    /\ FixedPrefix(s)
    /\ Len(s) # 24
    /\ Len(s) = 20 \/ (Len(s) >= 22 /\ s[21] = "." /\ AllDigits(s, 22, Len(s)))

SeparatorAt == [p \in {5, 9, 12, 15, 18} |->
                  IF p \in {5, 9} THEN "/" ELSE IF p = 12 THEN " " ELSE ":"]

\* the fixed format with one or more of its five date and time separators replaced
WrongSeparator(s) ==
    /\ Len(s) = 24
    /\ \E p \in DOMAIN SeparatorAt : s[p] # SeparatorAt[p]
    /\ FixedFormat([i \in 1..24 |-> IF i \in DOMAIN SeparatorAt THEN SeparatorAt[i] ELSE s[i]])

\* a year and a slash followed by three characters that are no month abbreviation
BadMonth(s) ==
    /\ Len(s) >= 8 /\ AllDigits(s, 1, 4) /\ s[5] = "/"
    /\ ~ \E m \in 1..12 : Fold(MonthAbbrevs[m]) = Fold(SubSeq(s, 6, 8))

ExpectedDate(s) ==
    SubSeq(s, 1, 4) \o <<"-", DigitChar(MonthOf(s) \div 10), DigitChar(MonthOf(s) % 10), "-">>
    \o SubSeq(s, 10, 11)

\* C4 as stated: parseDate succeeds exactly on the strings of the fixed format
\* YYYY/Mon/DD HH:MM:SS.fff, and then returns the YYYY-MM-DD of the date.
C4_ExactFormatOnly ==
    Returned("parseDate") =>
        /\ (~fnRet.err) <=> FixedFormat(fnCall.timeStr)
        /\ FixedFormat(fnCall.timeStr) => fnRet.date = ExpectedDate(fnCall.timeStr)

\* C4 amended: parseDate succeeds on every valid string of the fixed format and
\* also when the fraction is missing or has another number of digits; whenever it
\* succeeds it returns the YYYY-MM-DD of the date; it fails when a date or time
\* separator is wrong or the month name is no month abbreviation.
C4_ParseDate ==
    Returned("parseDate") =>
        /\ FixedFormat(fnCall.timeStr) => ~fnRet.err
        /\ FractionVariant(fnCall.timeStr) => ~fnRet.err
        /\ ~fnRet.err => fnRet.date = ExpectedDate(fnCall.timeStr)
        /\ WrongSeparator(fnCall.timeStr) => fnRet.err
        /\ BadMonth(fnCall.timeStr) => fnRet.err

C4_Witness ==
    /\ Returned("parseDate")
    /\ FractionVariant(fnCall.timeStr) /\ Len(fnCall.timeStr) = 20
    /\ ~fnRet.err /\ fnRet.date = <<"2", "0", "2", "4", "-", "0", "2", "-", "2", "9">>

\* C5: normalizeAmp returns the sentinel for "" and "?", and for every other
\* input the input without its decimal points, cut to its first 3 characters.
C5_NormalizeAmp ==
    Returned("normalizeAmp") =>
        /\ fnCall.amp \in {<<>>, <<"?">>} => fnRet.amp = <<"n", "o", "_", "a", "m", "p">>
        /\ fnCall.amp \notin {<<>>, <<"?">>} =>
               IsFilteredPrefix(fnRet.amp, fnCall.amp, {"."}, 3)
        /\ fnCall.amp = <<"0", ".", "9", "7", "8", "9">> => fnRet.amp = <<"0", "9", "7">>
        /\ fnCall.amp = <<"1", ".", "5">> => fnRet.amp = <<"1", "5">>

C5_Witness ==
    /\ Returned("normalizeAmp")
    /\ fnCall.amp = <<"0", ".", "9", "7", "8", "9">> /\ fnRet.amp = <<"0", "9", "7">>

NineChars == {"<", ">", ":", "\"", "/", "\\", "|", "?", "*"}
RenderedAmp(amp) == IF amp = <<"n", "o", "_", "a", "m", "p">> THEN <<>> ELSE amp

\* C6: the artifact name is {date}design{design}amp{amp}.csv with the sentinel
\* rendered as nothing, and the name used on disk is that name with every one of
\* the nine characters removed and all other characters kept in order.
C6_ArtifactName ==
    Returned("generateFilename") =>
        LET f == fnRet.filename
            n1 == Len(fnCall.date)
            n2 == n1 + 6 + Len(fnCall.design)
            n3 == n2 + 3 + Len(RenderedAmp(fnCall.amp))
        IN  /\ Len(f) = n3 + 4
            /\ SubSeq(f, 1, n1) = fnCall.date
            /\ SubSeq(f, n1 + 1, n1 + 6) = <<"d", "e", "s", "i", "g", "n">>
            /\ SubSeq(f, n1 + 7, n2) = fnCall.design
            /\ SubSeq(f, n2 + 1, n2 + 3) = <<"a", "m", "p">>
            /\ SubSeq(f, n2 + 4, n3) = RenderedAmp(fnCall.amp)
            /\ SubSeq(f, n3 + 1, n3 + 4) = <<".", "c", "s", "v">>
            /\ IsFilteredPrefix(fnRet.sanitized, f, NineChars, Len(f))
            /\ \A i \in 1..Len(fnRet.sanitized) : fnRet.sanitized[i] \notin NineChars

C6_Witness ==
    /\ Returned("generateFilename")
    /\ fnCall.amp = no_amp
    /\ fnCall.design = <<"A", "\\", "B">>
    /\ fnRet.sanitized = fnCall.date \o <<"d", "e", "s", "i", "g", "n", "A", "B",
                                           "a", "m", "p", ".", "c", "s", "v">>

\* C7: determineColor is total and tri-state: less gives red, equal gives green,
\* greater gives blue; exactly one channel is 65535 and the other two are 0.
C7_DetermineColor ==
    Returned("determineColor") =>
        /\ fnCall.passCount < fnCall.targPass => fnRet.rgb = <<65535, 0, 0>>
        /\ fnCall.passCount = fnCall.targPass => fnRet.rgb = <<0, 65535, 0>>
        /\ fnCall.passCount > fnCall.targPass => fnRet.rgb = <<0, 0, 65535>>
        /\ Cardinality({i \in 1..3 : fnRet.rgb[i] = 65535}) = 1
        /\ Cardinality({i \in 1..3 : fnRet.rgb[i] = 0}) = 2

C7_Witness ==
    /\ Returned("determineColor")
    /\ fnCall.passCount = fnCall.targPass /\ fnRet.rgb = <<0, 65535, 0>>

(***************************************************************************)
(* package sorter: SortCSV                                                 *)
(*                                                                         *)
(* The source is taken as csv.Reader delivers it: a header record and data *)
(* records; a data record whose number of fields differs from the header's *)
(* makes reader.Read return an error (csv.ErrFieldCount).  An artifact is  *)
(* the sequence of records csv.Writer has written to it.                   *)
(***************************************************************************)
ColTime == <<"T", "i", "m", "e">>
ColDesignName == <<"D", "e", "s", "i", "g", "n", "N", "a", "m", "e">>
ColLastAmp == <<"L", "a", "s", "t", "A", "m", "p">>
ColPassCount == <<"P", "a", "s", "s", "C", "o", "u", "n", "t">>

\* the required columns with LastAmp forgotten: a slip
requiredNoAmp == <<ColTime, ColDesignName>>

required == <<ColTime, ColDesignName, ColLastAmp>>

\* colMap[col]: for col, i := range header { colMap[col] = i } keeps the last index
hasColumn(header, col) == \E i \in 1..Len(header) : header[i] = col
colMap(header, col) ==
    CHOOSE i \in 1..Len(header) :
        header[i] = col /\ \A j \in 1..Len(header) : header[j] = col => j <= i

GroupKey(date, design, amp) == [Date |-> date, DesignName |-> design, Amp |-> amp]

\* groups[key] = [][]string{row}, dropping the rows already grouped: a slip
groupReplace(g, key, row) ==
    IF key \in DOMAIN g THEN [g EXCEPT ![key] = <<row>>]
    ELSE g @@ (key :> <<row>>)

\* groups[key] = append(groups[key], row), with the row put in front: a slip
groupPrepend(g, key, row) ==
    IF key \in DOMAIN g THEN [g EXCEPT ![key] = <<row>> \o @]
    ELSE g @@ (key :> <<row>>)

\* groups[key] = append(groups[key], row)
groupAppend(g, key, row) ==
    IF key \in DOMAIN g THEN [g EXCEPT ![key] = Append(@, row)]
    ELSE g @@ (key :> <<row>>)

\* if errorLog != nil { fmt.Fprintf(errorLog, ...) }
logLine(log, line) == IF ~log.open THEN log ELSE [log EXCEPT !.lines = Append(@, line)]

\* processChunk from row i on; st = [skipped, err, groups, log] so far
RECURSIVE processRows(_, _, _, _, _, _, _)
processRows(i, rows, timeIdx, designIdx, ampIdx, skipOn, st) ==
    IF i > Len(rows) THEN st
    ELSE LET date == parseDate(rows[i][timeIdx])
         IN  IF date.err
             THEN IF skipOn
                  THEN processRows(i + 1, rows, timeIdx, designIdx, ampIdx, skipOn,
                           [st EXCEPT !.skipped = @ + 1,
                                      !.log = logLine(@, [kind |-> "date", n |-> i,
                                                          value |-> rows[i][timeIdx]])])
                  ELSE [st EXCEPT !.err = TRUE]
             ELSE processRows(i + 1, rows, timeIdx, designIdx, ampIdx, skipOn,
                      [st EXCEPT !.groups =
                           groupAppend(@, GroupKey(date.date, rows[i][designIdx],
                                                   normalizeAmp(rows[i][ampIdx])),
                                       rows[i])])

\* processChunk that skips a row with a bad date in every mode: a slip
processChunkAlwaysSkip(rows, timeIdx, designIdx, ampIdx, g, skipOn, log) ==
    processRows(1, rows, timeIdx, designIdx, ampIdx, TRUE,
                [skipped |-> 0, err |-> FALSE, groups |-> g, log |-> log])

processChunk(rows, timeIdx, designIdx, ampIdx, g, skipOn, log) ==
    processRows(1, rows, timeIdx, designIdx, ampIdx, skipOn,
                [skipped |-> 0, err |-> FALSE, groups |-> g, log |-> log])

\* sortChunk that starts every chunk from an empty map of groups: a slip
sortChunkFresh(rows) ==
    processChunk(rows, colMap(src.header, ColTime), colMap(src.header, ColDesignName),
                 colMap(src.header, ColLastAmp), EmptyMap, skipErrors, errorLog)

\* processChunk on the chunk of SortCSV, with the column indices of its header
sortChunk(rows) ==
    processChunk(rows, colMap(src.header, ColTime), colMap(src.header, ColDesignName),
                 colMap(src.header, ColLastAmp), groups, skipErrors, errorLog)

\* Lines 75-129: open and read the source, read the header, check the columns
SortCSVOpen(source, skipOn, log) ==
    /\ pc \in {"idle", "done"}
    /\ src' = source /\ skipErrors' = skipOn /\ errorLog' = log
    /\ dir0' = dir
    /\ dirAt' = Append(dirAt, dir)
    /\ pos' = 1 /\ chunk' = <<>> /\ rowCount' = 0 /\ skippedRows' = 0
    /\ groups' = EmptyMap /\ todo' = {}
    /\ IF \E k \in 1..Len(required) : ~hasColumn(source.header, required[k])
       THEN pc' = "done" /\ ret' = "err"
       ELSE pc' = "read" /\ ret' = "none"
    /\ UNCHANGED <<dir, chunkSize, kvars, lvars, gvars, bvars>>

\* Lines 130-172: one iteration of the row loop
SortCSVRead ==
    /\ pc = "read"
    /\ IF pos > Len(src.rows)
       THEN \* io.EOF: the last chunk, then on to the groups
            LET res == IF Len(chunk) > 0 THEN sortChunk(chunk)
                       ELSE [skipped |-> 0, err |-> FALSE, groups |-> groups,
                             log |-> errorLog]
                fatal == res.err /\ ~skipErrors
                total == skippedRows + res.skipped
            IN  /\ skippedRows' = total
                /\ groups' = res.groups
                /\ errorLog' = IF ~fatal /\ skipErrors /\ total > 0
                               THEN logLine(res.log, [kind |-> "total", n |-> total])
                               ELSE res.log
                /\ pc' = IF fatal THEN "done" ELSE "write"
                /\ ret' = IF fatal THEN "err" ELSE ret
                /\ todo' = IF fatal THEN {} ELSE DOMAIN res.groups
                /\ UNCHANGED <<pos, chunk, rowCount>>
       ELSE IF Len(src.rows[pos]) # Len(src.header)
       THEN \* reader.Read returns an error for this record
            IF skipErrors
            THEN /\ errorLog' = logLine(errorLog, [kind |-> "row", n |-> rowCount + 2])
                 /\ skippedRows' = skippedRows + 1
                 /\ pos' = pos + 1
                 /\ UNCHANGED <<pc, ret, chunk, rowCount, groups, todo>>
            ELSE /\ pc' = "done" /\ ret' = "err"
                 /\ UNCHANGED <<errorLog, skippedRows, pos, chunk, rowCount, groups, todo>>
       ELSE LET full == Append(chunk, src.rows[pos])
            IN  /\ pos' = pos + 1
                /\ rowCount' = rowCount + 1
                /\ IF Len(full) >= chunkSize
                   THEN LET res == sortChunk(full)
                        IN  /\ skippedRows' = skippedRows + res.skipped
                            /\ groups' = res.groups
                            /\ errorLog' = res.log
                            /\ IF res.err /\ ~skipErrors
                               THEN pc' = "done" /\ ret' = "err" /\ chunk' = full
                               ELSE chunk' = <<>> /\ UNCHANGED <<pc, ret>>
                   ELSE /\ chunk' = full
                        /\ UNCHANGED <<pc, ret, skippedRows, groups, errorLog>>
                /\ UNCHANGED todo
    /\ UNCHANGED <<src, skipErrors, dir, dir0, dirAt, chunkSize, kvars, lvars, pvars, gvars, bvars>>

\* The iteration that writes the header whether or not the file exists: a slip
SortCSVWriteHeader(key) ==
    /\ pc = "write"
    /\ key \in todo
    /\ LET sanitized == sanitizeFilename(generateFilename(key.Date, key.DesignName, key.Amp))
           fileExists == sanitized \in DOMAIN dir
       IN  dir' = IF fileExists
                  THEN [dir EXCEPT ![sanitized] = @ \o <<src.header>> \o groups[key]]
                  ELSE dir @@ (sanitized :> (<<src.header>> \o groups[key]))
    /\ todo' = todo \ {key}
    /\ UNCHANGED <<pc, src, skipErrors, errorLog, pos, chunk, rowCount, skippedRows,
                   groups, ret, dir0, dirAt, chunkSize, kvars, lvars, pvars, gvars, bvars>>

\* Lines 175-216: one iteration of the range loop over groups, in any order
SortCSVWrite(key) ==
    /\ pc = "write"
    /\ key \in todo
    /\ LET sanitized == sanitizeFilename(generateFilename(key.Date, key.DesignName, key.Amp))
           fileExists == sanitized \in DOMAIN dir
       IN  dir' = IF fileExists
                  THEN [dir EXCEPT ![sanitized] = @ \o groups[key]]
                  ELSE dir @@ (sanitized :> (<<src.header>> \o groups[key]))
    /\ todo' = todo \ {key}
    /\ UNCHANGED <<pc, src, skipErrors, errorLog, pos, chunk, rowCount, skippedRows,
                   groups, ret, dir0, dirAt, chunkSize, kvars, lvars, pvars, gvars, bvars>>

\* Lines 186-189: os.OpenFile fails for the artifact of a group (the name is
\* taken by a directory, no permission, no space): SortCSV returns the error;
\* the groups written before stay written
SortCSVOpenFault(key) ==
    /\ pc = "write"
    /\ key \in todo
    /\ pc' = "done" /\ ret' = "err"
    /\ UNCHANGED <<src, skipErrors, errorLog, pos, chunk, rowCount, skippedRows,
                   groups, todo, dir, dir0, dirAt, chunkSize, kvars, lvars, pvars, gvars, bvars>>

\* Line 218: return nil
SortCSVReturn ==
    /\ pc = "write"
    /\ todo = {}
    /\ pc' = "done" /\ ret' = "ok"
    /\ UNCHANGED <<src, skipErrors, errorLog, pos, chunk, rowCount, skippedRows,
                   groups, todo, dir, dir0, dirAt, chunkSize, kvars, lvars, pvars, gvars, bvars>>

(***************************************************************************)
(* SortCSV harness: a call, on a source of up to MaxRows rows drawn from a *)
(* pool, into an output directory that is empty or holds one artifact of a *)
(* prior run; a call that succeeded may be repeated, up to MaxCalls calls. *)
(***************************************************************************)
MaxRows == 3
MaxCalls == 2

Header == <<ColTime, ColPassCount, ColDesignName, ColLastAmp>>
HeaderNoAmp == <<ColTime, ColPassCount, ColDesignName>>
HeaderNoTime == <<ColPassCount, ColDesignName, ColLastAmp>>
HeaderNoDesign == <<ColTime, ColPassCount, ColLastAmp>>

Time1 == Timestamp(BaseYear, Sl, BaseMonth, Sl, BaseDay, Sp, BaseHour, Co, BaseMin, Co,
                   BaseSec, BaseFrac)
Time2 == Timestamp(BaseYear, Sl, BaseMonth, Sl, BaseDay, Sp, <<"1", "0">>, Co, BaseMin, Co,
                   BaseSec, <<".", "6", "0", "0">>)
Time3 == Timestamp(BaseYear, Sl, BaseMonth, Sl, <<"0", "2">>, Sp, BaseHour, Co, BaseMin, Co,
                   BaseSec, BaseFrac)
Amp097 == <<"0", ".", "9", "7">>

RowPool ==
    { <<Time1, <<"1">>, <<"A", "/", "B">>, Amp097>>,
      <<Time1, <<"2">>, <<"A", "B">>, Amp097>>,
      <<Time2, <<"3">>, <<"A", "B">>, <<"0", ".", "9", "7", "8", "9">>>>,
      <<Time3, <<"4">>, <<"A", "B">>, <<"?">>>>,
      <<<<"2", "0", "2", "5", "-", "1", "0", "-", "0", "1">>, <<"5">>, <<"A", "B">>, Amp097>>,
      <<Time1, <<"6">>, <<"A", "B">>>> }

RowSeqs(n) == UNION { [1..k -> RowPool] : k \in 0..n }

Sources ==
    { [header |-> Header, rows |-> rs] : rs \in RowSeqs(MaxRows) }
    \cup { [header |-> h, rows |-> rs] :
               h \in {HeaderNoAmp, HeaderNoTime, HeaderNoDesign}, rs \in RowSeqs(1) }

PriorName == <<"2", "0", "2", "5", "-", "1", "0", "-", "0", "1", "d", "e", "s", "i", "g", "n",
               "A", "B", "a", "m", "p", "0", "9", "7", ".", "c", "s", "v">>
PriorDir == PriorName :> <<Header, <<Time2, <<"0">>, <<"A", "B">>, Amp097>>>>

\* The package as built starts on an empty output directory and is called again
\* on what it has written there; built with small chunks it starts on a
\* directory that holds an artifact of an earlier run
SortInit ==
    /\ KeyIdle
    /\ LasIdle
    /\ PipeIdle
    /\ GuiIdle
    /\ CliIdle
    /\ pc = "idle" /\ src = NoSource /\ skipErrors = FALSE /\ errorLog = NoLog
    /\ pos = 0 /\ chunk = <<>> /\ rowCount = 0 /\ skippedRows = 0
    /\ groups = EmptyMap /\ todo = {} /\ ret = "none"
    /\ chunkSize \in ChunkSizes
    /\ dir = (IF chunkSize = ChunkSize THEN EmptyMap ELSE PriorDir)
    /\ dir0 = dir
    /\ dirAt = <<>>

Open ==
    /\ pc = "idle"
    /\ \E source \in Sources, skipOn \in BOOLEAN, log \in {NoLog, OpenLog} :
           /\ log = NoLog \/ skipOn
           /\ SortCSVOpen(source, skipOn, log)
    /\ UNCHANGED pvars

WriteGroup == \E key \in todo : SortCSVWrite(key)

\* SortCSV of the package as built is called again in non-skip mode on the same
\* source, into the same directory
Again ==
    /\ pc = "done" /\ ret = "ok" /\ ~skipErrors
    /\ chunkSize = ChunkSize
    /\ Len(dirAt) < MaxCalls
    /\ SortCSVOpen(src, skipErrors, errorLog)
    /\ UNCHANGED pvars

Next ==
    \/ Open
    \/ SortCSVRead
    \/ WriteGroup
    \/ Again
    \/ SortCSVReturn

Spec == SortInit /\ [][Next]_vars

(***************************************************************************)
(* package converter: ConvertCSVToLAS and ConvertDirectory.  Of a point    *)
(* only the colour, the intensity and the classification are carried; its  *)
(* coordinates and time stamp are the business of package las.             *)
(***************************************************************************)
ColCellE == <<"C", "e", "l", "l", "E", "_", "m">>
ColCellN == <<"C", "e", "l", "l", "N", "_", "m">>
ColElevation == <<"E", "l", "e", "v", "a", "t", "i", "o", "n", "_", "m">>
ColTargPassCount == <<"T", "a", "r", "g", "P", "a", "s", "s", "C", "o", "u", "n", "t">>

\* stdFracSecond0 of the layout ".000": the four characters parseNanoseconds takes
parseFractionMillis(p) ==
    IF ~p.ok THEN p
    ELSE IF parseNanoseconds(p.rest) THEN [p EXCEPT !.rest = Drop(p.rest, 4)]
    ELSE [p EXCEPT !.ok = FALSE]

\* the layout "2006/Jan/02 15:04:05" up to and including the seconds
parseToSecond(value) ==
    parseClock(parseLiteral(
    parseClock(parseLiteral(
    parseClock(parseLiteral(
    parseDay(parseLiteral(
    parseMonth(parseLiteral(
    parseYear(parseStart(value)),
    "/")), "/")), " "), FALSE, 24), ":"), TRUE, 60), ":"), TRUE, 60)

\* time.Parse("2006/Jan/02 15:04:05.000", value)
timeParseMillis(value) == parseEnd(parseFractionMillis(parseToSecond(value)))

\* time.Parse("2006/Jan/02 15:04:05", value): a fraction after the seconds is
\* taken although the layout has none
timeParseSeconds(value) == parseEnd(parseFraction(parseToSecond(value)))

\* whether parseTimeToGPS returns an error
parseTimeToGPS(timeStr) ==
    IF timeParseMillis(timeStr).ok THEN [err |-> FALSE]
    ELSE IF timeParseSeconds(timeStr).ok THEN [err |-> FALSE]
    ELSE [err |-> TRUE]

unsigned(s) == IF s # <<>> /\ s[1] \in {"+", "-"} THEN Tail(s) ELSE s

RECURSIVE digitsValue(_)
digitsValue(s) == IF s = <<>> THEN 0 ELSE digitsValue(Take(s, Len(s) - 1)) * 10 + DigitVal(s[Len(s)])

isDigitChar(c) == c \in Digit

\* the number of zeros at the front of a sequence of digits
leadingZeros(d) ==
    CHOOSE z \in 0..Len(d) :
        /\ \A k \in 1..z : d[k] = "0"
        /\ z < Len(d) => d[z + 1] # "0"

\* a < b for two sequences of digits without zeros at the front
digitsLess(a, b) ==
    \/ Len(a) < Len(b)
    \/ /\ Len(a) = Len(b)
       /\ \E i \in 1..Len(a) :
              /\ DigitVal(a[i]) < DigitVal(b[i])
              /\ \A k \in 1..(i - 1) : a[k] = b[k]

\* 1<<63, the cutoff of strconv.ParseInt for an int of 64 bits
Int64Cutoff ==
    <<"9", "2", "2", "3", "3", "7", "2", "0", "3", "6", "8", "5", "4", "7", "7", "5",
      "8", "0", "8">>

\* whether strconv.Atoi returns an error, where int has 64 bits: a syntax
\* error without digits or with anything but digits after the sign, a range
\* error outside of -2^63..2^63-1
atoiErr(s) ==
    \/ unsigned(s) = <<>>
    \/ \E i \in 1..Len(unsigned(s)) : unsigned(s)[i] \notin Digit
    \/ IF s[1] = "-"
       THEN digitsLess(Int64Cutoff, Drop(unsigned(s), leadingZeros(unsigned(s))))
       ELSE ~digitsLess(Drop(unsigned(s), leadingZeros(unsigned(s))), Int64Cutoff)

\* strconv.Atoi; n is the number, for numbers of up to nine digits
atoi(s) ==
    IF atoiErr(s) THEN [err |-> TRUE, n |-> 0]
    ELSE [err |-> FALSE,
          n |-> IF s[1] = "-" THEN 0 - digitsValue(Drop(unsigned(s), leadingZeros(unsigned(s))))
                ELSE digitsValue(Drop(unsigned(s), leadingZeros(unsigned(s))))]

\* strconv.special: NaN, and the infinities with or without a sign
special(s) ==
    \/ Fold(s) = <<"n", "a", "n">>
    \/ Fold(unsigned(s)) \in {<<"i", "n", "f">>, <<"i", "n", "f", "i", "n", "i", "t", "y">>}

HexLetters == <<"a", "b", "c", "d", "e", "f">>
HexDigit == Digit \cup {"a", "b", "c", "d", "e", "f", "A", "B", "C", "D", "E", "F"}
isHexDigitChar(c) == c \in HexDigit
hexVal(c) ==
    IF c \in Digit THEN DigitVal(c)
    ELSE 9 + CHOOSE i \in 1..6 : HexLetters[i] = FoldChar(c)

\* strconv.readFloat on u, the text after the sign: a mantissa with the base
\* prefix 0x is hexadecimal
isHex(u) == Len(u) > 2 /\ u[1] = "0" /\ u[2] \in {"x", "X"}
mantStart(u) == IF isHex(u) THEN 3 ELSE 1
mantDigits(u) == IF isHex(u) THEN HexDigit ELSE Digit

\* the loop over the mantissa goes on over digits, underscores and one point
inMantissa(u, k) ==
    \/ u[k] \in mantDigits(u) \cup {"_"}
    \/ u[k] = "." /\ \A m \in mantStart(u)..(k - 1) : u[m] # "."

\* the index at which that loop stops
mantEnd(u) ==
    CHOOSE j \in mantStart(u)..(Len(u) + 1) :
        /\ \A k \in mantStart(u)..(j - 1) : inMantissa(u, k)
        /\ j <= Len(u) => ~inMantissa(u, j)

\* the index of the first digit of the exponent that begins at j
expStart(u, j) == IF j + 1 <= Len(u) /\ u[j + 1] \in {"+", "-"} THEN j + 2 ELSE j + 1

\* from j to the end of u there is an exponent: e (p after a hexadecimal
\* mantissa), a sign or none, a digit, then digits and underscores
isExponent(u, j) ==
    /\ FoldChar(u[j]) = (IF isHex(u) THEN "p" ELSE "e")
    /\ expStart(u, j) <= Len(u)
    /\ u[expStart(u, j)] \in Digit
    /\ \A k \in expStart(u, j)..Len(u) : u[k] \in Digit \cup {"_"}

\* strconv.underscoreOK: an underscore stands between two digits, or between
\* the base prefix and a digit
underscoreOK(u) ==
    \A k \in 1..Len(u) :
        u[k] = "_" =>
            /\ k < Len(u) /\ u[k + 1] \in mantDigits(u)
            /\ \/ k > 1 /\ u[k - 1] \in mantDigits(u)
               \/ k = 3 /\ isHex(u)

\* readFloat takes all of u, whose mantissa ends before j: there is a digit in
\* the mantissa, the rest is an exponent, which a hexadecimal mantissa must have
readFloat(u, j) ==
    /\ \E k \in mantStart(u)..(j - 1) : u[k] \in mantDigits(u)
    /\ IF j > Len(u) THEN ~isHex(u) ELSE isExponent(u, j)
    /\ underscoreOK(u)

\* the exponent as readFloat adds it up: if e < 10000 { e = e*10 + digit }
exponentOf(u, j) ==
    IF j > Len(u) THEN 0
    ELSE (IF u[j + 1] = "-" THEN -1 ELSE 1)
         * digitsValue(Take(
               Drop(SelectSeq(SubSeq(u, expStart(u, j), Len(u)), isDigitChar),
                    leadingZeros(SelectSeq(SubSeq(u, expStart(u, j), Len(u)), isDigitChar))),
               5))

\* the digits of the mantissa, and how many of them stand before the point
mantissaOf(u, j) ==
    IF isHex(u) THEN SelectSeq(SubSeq(u, 3, j - 1), isHexDigitChar)
    ELSE SelectSeq(SubSeq(u, 1, j - 1), isDigitChar)
pointOf(u, j) ==
    IF \E k \in mantStart(u)..(j - 1) : u[k] = "."
    THEN Len(mantissaOf(u, CHOOSE k \in mantStart(u)..(j - 1) : u[k] = "."))
    ELSE Len(mantissaOf(u, j))

\* the decimal digits of 2^1024 - 2^970, half way between the largest float64
\* and 2^1024: a number rounds to an infinity from there on
overflowDigits ==
    <<
        1, 7, 9, 7, 6, 9, 3, 1, 3, 4, 8, 6, 2, 3, 1, 5, 8, 0, 7, 9, 3, 7, 2, 8, 9, 7, 1, 4, 0, 5,
        3, 0, 3, 4, 1, 5, 0, 7, 9, 9, 3, 4, 1, 3, 2, 7, 1, 0, 0, 3, 7, 8, 2, 6, 9, 3, 6, 1, 7, 3,
        7, 7, 8, 9, 8, 0, 4, 4, 4, 9, 6, 8, 2, 9, 2, 7, 6, 4, 7, 5, 0, 9, 4, 6, 6, 4, 9, 0, 1, 7,
        9, 7, 7, 5, 8, 7, 2, 0, 7, 0, 9, 6, 3, 3, 0, 2, 8, 6, 4, 1, 6, 6, 9, 2, 8, 8, 7, 9, 1, 0,
        9, 4, 6, 5, 5, 5, 5, 4, 7, 8, 5, 1, 9, 4, 0, 4, 0, 2, 6, 3, 0, 6, 5, 7, 4, 8, 8, 6, 7, 1,
        5, 0, 5, 8, 2, 0, 6, 8, 1, 9, 0, 8, 9, 0, 2, 0, 0, 0, 7, 0, 8, 3, 8, 3, 6, 7, 6, 2, 7, 3,
        8, 5, 4, 8, 4, 5, 8, 1, 7, 7, 1, 1, 5, 3, 1, 7, 6, 4, 4, 7, 5, 7, 3, 0, 2, 7, 0, 0, 6, 9,
        8, 5, 5, 5, 7, 1, 3, 6, 6, 9, 5, 9, 6, 2, 2, 8, 4, 2, 9, 1, 4, 8, 1, 9, 8, 6, 0, 8, 3, 4,
        9, 3, 6, 4, 7, 5, 2, 9, 2, 7, 1, 9, 0, 7, 4, 1, 6, 8, 4, 4, 4, 3, 6, 5, 5, 1, 0, 7, 0, 4,
        3, 4, 2, 7, 1, 1, 5, 5, 9, 6, 9, 9, 5, 0, 8, 0, 9, 3, 0, 4, 2, 8, 8, 0, 1, 7, 7, 9, 0, 4,
        1, 7, 4, 4, 9, 7, 7, 9, 2 >>

\* digit i of the digits sig, which go on with zeros
digitAt(sig, i) == IF i <= Len(sig) THEN DigitVal(sig[i]) ELSE 0

\* the digits sig, without zeros at the front and as a fraction 0.sig * 10^309,
\* are at or above 2^1024 - 2^970
atOverflow(sig) ==
    ~\E i \in 1..Len(overflowDigits) :
        /\ digitAt(sig, i) < overflowDigits[i]
        /\ \A k \in 1..(i - 1) : digitAt(sig, k) = overflowDigits[k]

\* the decimal number of the digits d, dp of them before the point, times
\* 10^e rounds to an infinity
decimalOverflow(d, dp, e) ==
    /\ leadingZeros(d) < Len(d)
    /\ \/ dp - leadingZeros(d) + e > Len(overflowDigits)
       \/ /\ dp - leadingZeros(d) + e = Len(overflowDigits)
          /\ atOverflow(Drop(d, leadingZeros(d)))

\* the number of bits of a hexadecimal digit above 0
hexBits(v) == IF v >= 8 THEN 4 ELSE IF v >= 4 THEN 3 ELSE IF v >= 2 THEN 2 ELSE 1

\* bit n, from the top, of the hexadecimal digits sig, which begin with a digit
\* above 0; the zero bits at the front of that digit are not counted
bitAt(sig, n) ==
    IF (n + 3 - hexBits(hexVal(sig[1]))) \div 4 + 1 > Len(sig) THEN 0
    ELSE (hexVal(sig[(n + 3 - hexBits(hexVal(sig[1]))) \div 4 + 1])
              \div (2 ^ (3 - ((n + 3 - hexBits(hexVal(sig[1]))) % 4)))) % 2

\* the hexadecimal number of the digits d, dp of them before the point, times
\* 2^e rounds to an infinity: it is at or above 2^1024 - 2^970, whose first 54
\* bits are ones
hexOverflow(d, dp, e) ==
    /\ leadingZeros(d) < Len(d)
    /\ \/ 4 * (dp - leadingZeros(d)) - 4 + hexBits(hexVal(d[leadingZeros(d) + 1])) + e > 1024
       \/ /\ 4 * (dp - leadingZeros(d)) - 4 + hexBits(hexVal(d[leadingZeros(d) + 1])) + e = 1024
          /\ \A n \in 1..54 : bitAt(Drop(d, leadingZeros(d)), n) = 1

\* readFloat and the conversion of what it has read, on u whose mantissa ends
\* before j: a syntax error when u is no number as readFloat takes it, a range
\* error when the number rounds to an infinity (mantissas of up to 800 digits)
floatRange(u, j) ==
    IF ~readFloat(u, j) THEN [err |-> TRUE]
    ELSE IF isHex(u)
    THEN [err |-> hexOverflow(mantissaOf(u, j), pointOf(u, j), exponentOf(u, j))]
    ELSE [err |-> decimalOverflow(mantissaOf(u, j), pointOf(u, j), exponentOf(u, j))]

\* the text after the sign
parseUnsigned(u) == IF u = <<>> THEN [err |-> TRUE] ELSE floatRange(u, mantEnd(u))

\* whether strconv.ParseFloat(s, 64) returns an error
parseFloat(s) ==
    IF special(s) THEN [err |-> FALSE] ELSE parseUnsigned(unsigned(s))

convRequired ==
    <<ColTime, ColCellE, ColCellN, ColElevation, ColPassCount, ColTargPassCount>>

\* whether one of the six fields of the row fails to parse (lines 94-122)
rowError(header, row) ==
    \/ parseTimeToGPS(row[colMap(header, ColTime)]).err
    \/ parseFloat(row[colMap(header, ColCellE)]).err
    \/ parseFloat(row[colMap(header, ColCellN)]).err
    \/ parseFloat(row[colMap(header, ColElevation)]).err
    \/ atoiErr(row[colMap(header, ColPassCount)])
    \/ atoiErr(row[colMap(header, ColTargPassCount)])

\* the point AddPoint is given for a row (lines 125-138)
rowPoint(header, row) ==
    LET rgb == determineColor(atoi(row[colMap(header, ColPassCount)]).n,
                              atoi(row[colMap(header, ColTargPassCount)]).n)
    IN  [R |-> rgb[1], G |-> rgb[2], B |-> rgb[3], Intensity |-> 0, Classification |-> 1]

\* ConvertCSVToLAS on a file of records as csv.Reader.ReadAll returns them (a
\* record whose number of fields differs from the first one's is an error);
\* Write does not fail once there is a point
ConvertCSVToLAS(records) ==
    IF \E i \in 1..Len(records) : Len(records[i]) # Len(records[1])
    THEN [err |-> TRUE, points |-> <<>>]
    ELSE IF Len(records) < 2 THEN [err |-> TRUE, points |-> <<>>]
    ELSE IF \E k \in 1..Len(convRequired) : ~hasColumn(records[1], convRequired[k])
    THEN [err |-> TRUE, points |-> <<>>]
    ELSE IF \E i \in 2..Len(records) : rowError(records[1], records[i])
    THEN [err |-> TRUE, points |-> <<>>]
    ELSE [err |-> FALSE,
          points |-> [i \in 1..(Len(records) - 1) |-> rowPoint(records[1], records[i + 1])]]

\* baseName[:len(baseName)-4] + ".las"
lasName(baseName) == Take(baseName, Len(baseName) - 4) \o <<".", "l", "a", "s">>

\* the printable ASCII characters of the codes 32 to 95 and 97 to 126, in the
\* order of their codes
Ascii32 ==
    << " ", "!", "\"", "#", "$", "%", "&", "'", "(", ")", "*", "+",
       ",", "-", ".", "/", "0", "1", "2", "3", "4", "5", "6", "7",
       "8", "9", ":", ";", "<", "=", ">", "?", "@", "A", "B", "C",
       "D", "E", "F", "G", "H", "I", "J", "K", "L", "M", "N", "O",
       "P", "Q", "R", "S", "T", "U", "V", "W", "X", "Y", "Z", "[",
       "\\", "]", "^", "_" >>
Ascii97 ==
    << "a", "b", "c", "d", "e", "f", "g", "h", "i", "j", "k", "l",
       "m", "n", "o", "p", "q", "r", "s", "t", "u", "v", "w", "x",
       "y", "z", "{", "|", "}", "~" >>

byteOf(c) ==
    IF \E i \in 1..Len(Ascii32) : Ascii32[i] = c
    THEN 31 + CHOOSE i \in 1..Len(Ascii32) : Ascii32[i] = c
    ELSE 96 + CHOOSE i \in 1..Len(Ascii97) : Ascii97[i] = c

\* a < b for Go strings
RECURSIVE stringLess(_, _)
stringLess(a, b) ==
    IF b = <<>> THEN FALSE
    ELSE IF a = <<>> THEN TRUE
    ELSE IF byteOf(Head(a)) # byteOf(Head(b)) THEN byteOf(Head(a)) < byteOf(Head(b))
    ELSE stringLess(Tail(a), Tail(b))

\* filepath.Glob(dir/*.csv): the names of the directory in sorted order (every
\* artifact name ends in .csv)
RECURSIVE sortStrings(_)
sortStrings(names) ==
    IF names = {} THEN <<>>
    ELSE LET first == CHOOSE n \in names : \A o \in names \ {n} : stringLess(n, o)
         IN  <<first>> \o sortStrings(names \ {first})

Glob(d) == sortStrings(DOMAIN d)

(***************************************************************************)
(* cmd/compactmapper: runFullPipeline.  Step 1 passes the source, or each  *)
(* source of the input directory, to SortCSV; step 2 is ConvertDirectory   *)
(* over the sorted artifacts.                                              *)
(***************************************************************************)
\* the last SortCSV call returned an error
sortFailed == pc = "done" /\ ret = "err"

\* SortCSVDirectory, lines 271-275: the error of a source is logged in skip mode
logAfterSort ==
    IF sortFailed /\ input.isDirectory /\ pipeSkipErrors
    THEN logLine(errorLog, [kind |-> "file", n |-> Len(input.files) - Len(pending)])
    ELSE errorLog

\* main.go lines 188-191, sorter lines 276-277: in non-skip mode an error of
\* SortCSV ends the run
SortAbort ==
    /\ ppc = "sort" /\ sortFailed /\ ~pipeSkipErrors
    /\ ppc' = "exit" /\ exitCode' = 1
    /\ UNCHANGED <<input, pipeSkipErrors, pending, files, lasDir, successCount,
                   svars, kvars, lvars, gvars, bvars>>

\* main.go lines 180-186, sorter lines 269-270: SortCSV on the (next) source
SortNextFile ==
    /\ ppc = "sort" /\ pc \in {"idle", "done"}
    /\ ~(sortFailed /\ ~pipeSkipErrors)
    /\ pending # <<>>
    /\ SortCSVOpen(Head(pending), pipeSkipErrors, logAfterSort)
    /\ pending' = Tail(pending)
    /\ UNCHANGED <<ppc, input, pipeSkipErrors, files, lasDir, successCount, exitCode>>

\* main.go lines 193-203, converter lines 157-164: step 2 begins with the list
\* of the sorted artifacts; without any, ConvertDirectory fails
StartConvert ==
    /\ ppc = "sort" /\ pc \in {"idle", "done"}
    /\ ~(sortFailed /\ ~pipeSkipErrors)
    /\ pending = <<>>
    /\ errorLog' = logAfterSort
    /\ IF DOMAIN dir = {}
       THEN ppc' = "exit" /\ exitCode' = 1 /\ files' = files
       ELSE ppc' = "convert" /\ files' = Glob(dir) /\ exitCode' = exitCode
    /\ UNCHANGED <<input, pipeSkipErrors, pending, lasDir, successCount,
                   pc, src, skipErrors, pos, chunk, rowCount, skippedRows, groups,
                   todo, ret, dir, dir0, dirAt, chunkSize, kvars, lvars, gvars, bvars>>

\* converter lines 168-173, main.go lines 200-203: one file; an error ends the run
ConvertFile ==
    /\ ppc = "convert" /\ files # <<>>
    /\ IF ConvertCSVToLAS(dir[Head(files)]).err
       THEN /\ ppc' = "exit" /\ exitCode' = 1
            /\ UNCHANGED <<files, lasDir, successCount>>
       ELSE /\ lasDir' = (lasName(Head(files)) :> ConvertCSVToLAS(dir[Head(files)]).points)
                             @@ lasDir
            /\ successCount' = successCount + 1
            /\ files' = Tail(files)
            /\ UNCHANGED <<ppc, exitCode>>
    /\ UNCHANGED <<input, pipeSkipErrors, pending, svars, kvars, lvars, gvars, bvars>>

\* converter line 175, main.go lines 205-212
ConvertReturn ==
    /\ ppc = "convert" /\ files = <<>>
    /\ ppc' = "exit" /\ exitCode' = 0
    /\ UNCHANGED <<input, pipeSkipErrors, pending, files, lasDir, successCount,
                   svars, kvars, lvars, gvars, bvars>>

(***************************************************************************)
(* Pipeline harness: one run of the full pipeline into an empty output     *)
(* directory, on one source or on a directory of two, the rows drawn from  *)
(* a pool.                                                                 *)
(***************************************************************************)
MaxPipeRows == 2

PipeHeader ==
    <<ColTime, ColCellE, ColCellN, ColElevation, ColPassCount, ColTargPassCount,
      ColDesignName, ColLastAmp>>

\* two rows that convert, of different groups; a row with a bad time stamp; rows
\* of the two groups with a bad easting and a bad target pass count
PipeGood1 == <<Time1, <<"1", "0", "0", ".", "5">>, <<"2", "0", "0", ".", "3">>, <<"5", ".", "2">>, <<"3">>, <<"5">>, <<"A", "B">>, Amp097>>
PipeGood2 == <<Time3, <<"1", "0", "0", ".", "6">>, <<"2", "0", "0", ".", "4">>, <<"5", ".", "3">>, <<"5">>, <<"5">>, <<"A", "B">>, <<"?">>>>
PipeBadTime ==
    <<<<"2", "0", "2", "5", "-", "1", "0", "-", "0", "1">>, <<"1", "0", "0", ".", "5">>, <<"2", "0", "0", ".", "3">>, <<"5", ".", "2">>, <<"3">>, <<"5">>, <<"A", "B">>, Amp097>>
PipeBadEasting == <<Time1, <<"a", "b", "c">>, <<"2", "0", "0", ".", "3">>, <<"5", ".", "2">>, <<"7">>, <<"5">>, <<"A", "B">>, Amp097>>
PipeBadTarget == <<Time3, <<"1", "0", "0", ".", "6">>, <<"2", "0", "0", ".", "4">>, <<"5", ".", "3">>, <<"5">>, <<"x">>, <<"A", "B">>, <<"?">>>>

PipeRowPool == {PipeGood1, PipeGood2, PipeBadTime, PipeBadEasting, PipeBadTarget}

PipeSources ==
    { [header |-> PipeHeader, rows |-> rs] :
          rs \in UNION { [1..k -> PipeRowPool] : k \in 0..MaxPipeRows } }

\* a row of the group of PipeGood1 from a source with the four columns of Header
OtherColumnsRow == <<Time2, <<"3">>, <<"A", "B">>, Amp097>>

\* the other source of a directory of two
SecondSources ==
    { [header |-> PipeHeader, rows |-> <<PipeGood2>>],
      [header |-> PipeHeader, rows |-> <<PipeBadTarget>>],
      [header |-> HeaderNoAmp, rows |-> <<>>],
      [header |-> PipeHeader, rows |-> <<PipeGood1, PipeGood2>>],
      [header |-> Header, rows |-> <<OtherColumnsRow>>] }

PipeInputs ==
    { [isDirectory |-> FALSE, files |-> <<s>>] : s \in PipeSources }
    \cup { [isDirectory |-> TRUE, files |-> <<s, t>>] : s \in PipeSources, t \in SecondSources }

\* main.go lines 160-177: err.log is created in skip mode
PipeInit ==
    /\ KeyIdle
    /\ LasIdle
    /\ GuiIdle
    /\ CliIdle
    /\ pc = "idle" /\ src = NoSource /\ skipErrors = FALSE
    /\ pos = 0 /\ chunk = <<>> /\ rowCount = 0 /\ skippedRows = 0
    /\ groups = EmptyMap /\ todo = {} /\ ret = "none"
    /\ dir = EmptyMap /\ dir0 = EmptyMap /\ dirAt = <<>>
    /\ chunkSize = ChunkSize
    /\ ppc = "sort"
    /\ input \in PipeInputs
    /\ pipeSkipErrors \in BOOLEAN
    /\ errorLog = (IF pipeSkipErrors THEN OpenLog ELSE NoLog)
    /\ pending = input.files
    /\ files = <<>> /\ lasDir = EmptyMap /\ successCount = 0 /\ exitCode = -1

\* the artifact of some group cannot be opened
OpenFault == \E key \in todo : SortCSVOpenFault(key)

PipeNext ==
    \/ SortNextFile
    \/ SortCSVRead
    \/ WriteGroup
    \/ OpenFault
    \/ SortCSVReturn
    \/ SortAbort
    \/ StartConvert
    \/ ConvertFile
    \/ ConvertReturn

SpecPipe == PipeInit /\ [][PipeNext]_vars

(***************************************************************************)
(* SortCSV properties                                                      *)
(***************************************************************************)
Finished == pc = "done" /\ ret = "ok"

\* a data record SortCSV groups: read without error and with a date that parses
Accepted(row) ==
    /\ Len(row) = Len(src.header)
    /\ ~parseDate(row[colMap(src.header, ColTime)]).err

KeyOf(row) ==
    GroupKey(parseDate(row[colMap(src.header, ColTime)]).date,
             row[colMap(src.header, ColDesignName)],
             normalizeAmp(row[colMap(src.header, ColLastAmp)]))

\* the GroupKey of every accepted row of the source
AcceptedKey == [r \in {src.rows[i] : i \in {j \in 1..Len(src.rows) : Accepted(src.rows[j])}}
                    |-> KeyOf(r)]

\* the GroupKey of a written record, given the keys of the accepted rows
KeyIn(keys, row) == IF row \in DOMAIN keys THEN keys[row] ELSE KeyOf(row)

\* the data records this call has written to artifact f
Written(f) ==
    IF f \in DOMAIN dir0 THEN SubSeq(dir[f], Len(dir0[f]) + 1, Len(dir[f]))
    ELSE Tail(dir[f])

\* C1: when SortCSV succeeds, all rows that derive the same GroupKey are written
\* to one and the same artifact, in their original relative input order, also
\* when they fall into different chunks.
C1_SameKeyOneArtifactInOrder ==
    Finished =>
        LET keys == AcceptedKey
        IN  \A r \in DOMAIN keys :
                \E f \in DOMAIN dir :
                    /\ SelectSeq(Written(f), LAMBDA w : KeyIn(keys, w) = keys[r])
                         = SelectSeq(src.rows, LAMBDA s : s \in DOMAIN keys /\ keys[s] = keys[r])
                    /\ \A g \in DOMAIN dir \ {f} :
                           \A n \in 1..Len(Written(g)) : KeyIn(keys, Written(g)[n]) # keys[r]

\* two different rows of one key, the first in the first chunk and the last in a
\* later chunk, written in that order
C1_Witness ==
    /\ Finished
    /\ Len(src.rows) = chunkSize + 1
    /\ Accepted(src.rows[1]) /\ Accepted(src.rows[Len(src.rows)])
    /\ KeyOf(src.rows[1]) = KeyOf(src.rows[Len(src.rows)])
    /\ src.rows[1] # src.rows[Len(src.rows)]
    /\ \E f \in DOMAIN dir :
           \E a, b \in 1..Len(Written(f)) :
               a < b /\ Written(f)[a] = src.rows[1] /\ Written(f)[b] = src.rows[Len(src.rows)]

\* C2: rows whose GroupKeys differ are written to different artifacts: a run into
\* an empty output directory produces exactly as many artifacts as there are
\* distinct GroupKeys among the accepted rows, and each artifact contains only
\* the rows of one GroupKey.
C2_DistinctKeysDistinctArtifacts ==
    (Finished /\ DOMAIN dir0 = {}) =>
        LET keys == AcceptedKey
        IN  /\ Cardinality(DOMAIN dir) = Cardinality({keys[r] : r \in DOMAIN keys})
            /\ \A f \in DOMAIN dir :
                   \A a, b \in 2..Len(dir[f]) :
                       KeyIn(keys, dir[f][a]) = KeyIn(keys, dir[f][b])

(***************************************************************************)
(* package las                                                             *)
(*                                                                         *)
(* A file is its sequence of bytes (0..255).  A float64 is named by a      *)
(* decimal of the grid of half scale units: F(hi, lo, half) is the float64 *)
(* nearest to (hi * 65536 + lo) * 0.001 + half * 0.0005, with              *)
(* 0 <= lo < 65536 and -2^30 <= hi < 2^30 for the coordinates of a point.  *)
(* Beside the grid stand the float64 values that strconv.ParseFloat yields *)
(* for "Inf", "-Inf" and "NaN", and math.MaxFloat64 with its negative.     *)
(* Comparison is that of the decimals, with the infinities beyond every    *)
(* number and NaN neither below, above nor equal to anything.  The         *)
(* subtraction and the division of Write are carried out in float64, with  *)
(* its rounding; the product and the sum of the reader are taken on the    *)
(* decimals, so a decoded value is named by the grid value next to it.  A  *)
(* 32-bit integer is the pair [hi, lo] of its 16-bit halves, hi signed for *)
(* int32.                                                                  *)
(***************************************************************************)
HeaderSize == 227
RecordLength2 == 26
RecordLength3 == 34

at(b, i) == b[i + 1]
slice(b, i, j) == SubSeq(b, i + 1, j)
zeros(n) == [i \in 1..n |-> 0]
\* copy(dst, text) into n zero bytes
copyInto(n, text) == [i \in 1..n |-> IF i <= Len(text) THEN text[i] ELSE 0]

\* encoding/binary, little endian
PutUint16(v) == <<v % 256, v \div 256>>
Uint16(b) == b[1] + 256 * b[2]
PutUint32(v) == <<v % 256, (v \div 256) % 256, (v \div 65536) % 256, v \div 16777216>>
Uint32(b) == b[1] + 256 * b[2] + 65536 * b[3] + 16777216 * b[4]
\* PutUint32(b, uint32(x)) and int32(Uint32(b)) for x in halves
PutInt32(x) == PutUint16(x.lo) \o PutUint16(x.hi % 65536)
Int32(b) ==
    [hi |-> IF Uint16(SubSeq(b, 3, 4)) >= 32768 THEN Uint16(SubSeq(b, 3, 4)) - 65536
            ELSE Uint16(SubSeq(b, 3, 4)),
     lo |-> Uint16(SubSeq(b, 1, 2))]

F(hi, lo, half) == [hi |-> hi, lo |-> lo, half |-> half]
xScale == F(0, 1, 0)
\* math.MaxFloat64 and its negative: the two ends of the float64 values, above
\* and below every coordinate a point can hold
MaxFloat64 == F(2147483647, 65535, 1)
NegMaxFloat64 == F(-2147483647 - 1, 0, 1)

\* math.Inf(1), math.Inf(-1) and math.NaN()
PosInf == [inf |-> 1]
NegInf == [inf |-> -1]
NaN == [nan |-> TRUE]

IsNaN(a) == "nan" \in DOMAIN a
IsInf(a) == "inf" \in DOMAIN a
\* a number of the grid, the two ends apart
IsGrid(a) == "hi" \in DOMAIN a /\ a # MaxFloat64 /\ a # NegMaxFloat64

\* a < b in float64: false whenever a or b is NaN
FloatLess(a, b) ==
    IF IsNaN(a) \/ IsNaN(b) THEN FALSE
    ELSE IF IsInf(a) THEN a = NegInf /\ b # NegInf
    ELSE IF IsInf(b) THEN b = PosInf
    ELSE \/ a.hi < b.hi
         \/ a.hi = b.hi /\ a.lo < b.lo
         \/ a.hi = b.hi /\ a.lo = b.lo /\ a.half < b.half

\* a <= b in float64
FloatLeq(a, b) == ~IsNaN(a) /\ ~IsNaN(b) /\ (a = b \/ FloatLess(a, b))

\* a - b for two numbers of the grid
FloatSub(a, b) ==
    F(a.hi - b.hi - (IF a.lo - b.lo - (IF a.half < b.half THEN 1 ELSE 0) < 0 THEN 1 ELSE 0),
      (a.lo - b.lo - (IF a.half < b.half THEN 1 ELSE 0)) % 65536,
      (a.half - b.half) % 2)

\* a + b for a number a of the grid: b absorbs a where b is no number of the
\* grid (an infinity, NaN, or an end of float64, whose last place is 2^971)
FloatAdd(a, b) ==
    IF ~IsGrid(b) THEN b
    ELSE F(a.hi + b.hi + (a.lo + b.lo + (a.half + b.half) \div 2) \div 65536,
           (a.lo + b.lo + (a.half + b.half) \div 2) % 65536,
           (a.half + b.half) % 2)

\* float64(x) * scale for an int32 x and a scale below 8 (hi = 0, lo < 8192)
FloatMulInt(x, scale) ==
    F((x.hi * (2 * scale.lo + scale.half)) \div 2
        + (((x.hi * (2 * scale.lo + scale.half)) % 2) * 65536
              + x.lo * (2 * scale.lo + scale.half)) \div 131072,
      ((((x.hi * (2 * scale.lo + scale.half)) % 2) * 65536
              + x.lo * (2 * scale.lo + scale.half)) % 131072) \div 2,
      (x.lo * (2 * scale.lo + scale.half)) % 2)

\* the IEEE 754 patterns of the values beside the grid, low byte first
BitsPosInf == <<0, 0, 0, 0, 0, 0, 240, 127>>
BitsNegInf == <<0, 0, 0, 0, 0, 0, 240, 255>>
BitsNaN == <<1, 0, 0, 0, 0, 0, 248, 127>>
BitsMaxFloat64 == <<255, 255, 255, 255, 255, 255, 239, 127>>
BitsNegMaxFloat64 == <<255, 255, 255, 255, 255, 255, 239, 255>>

\* math.Float64bits and math.Float64frombits: the eight bytes that stand for a
\* grid value (not its IEEE 754 pattern; the last byte is 0), and back; the
\* values beside the grid have their IEEE 754 patterns
Float64bits(f) ==
    IF f = PosInf THEN BitsPosInf
    ELSE IF f = NegInf THEN BitsNegInf
    ELSE IF IsNaN(f) THEN BitsNaN
    ELSE IF f = MaxFloat64 THEN BitsMaxFloat64
    ELSE IF f = NegMaxFloat64 THEN BitsNegMaxFloat64
    ELSE <<f.half>> \o PutUint16(f.lo) \o PutUint32(f.hi + 2^30) \o <<0>>
Float64frombits(b) ==
    IF b = BitsPosInf THEN PosInf
    ELSE IF b = BitsNegInf THEN NegInf
    ELSE IF b = BitsNaN THEN NaN
    ELSE IF b = BitsMaxFloat64 THEN MaxFloat64
    ELSE IF b = BitsNegMaxFloat64 THEN NegMaxFloat64
    ELSE F(Uint32(SubSeq(b, 4, 7)) - 2^30, Uint16(SubSeq(b, 2, 3)), b[1] % 2)

(***************************************************************************)
(* float64 arithmetic of int32((value - minimum) / scale).  A grid value   *)
(* stands for the float64 nearest to its decimal, as a Go literal or       *)
(* strconv.ParseFloat yields it.  Whole numbers beyond 32 bits are the     *)
(* little-endian sequences of their limbs below 2^14; a float64 is         *)
(* [neg, man, exp] with the value man / 2^exp and man of at most 53 bits   *)
(* (between 2^52 and 2^53 for a rounded value).                            *)
(***************************************************************************)
Limb == 2^14

RECURSIVE trim(_)
trim(x) == IF Len(x) > 0 /\ x[Len(x)] = 0 THEN trim(SubSeq(x, 1, Len(x) - 1)) ELSE x

limbAt(x, i) == IF i >= 1 /\ i <= Len(x) THEN x[i] ELSE 0

\* the limbs of the number with the entries of x (of either sign) at its places
RECURSIVE carry(_, _, _)
carry(x, i, c) ==
    IF i > Len(x) THEN (IF c = 0 THEN <<>> ELSE <<c % Limb>> \o carry(x, i, c \div Limb))
    ELSE <<(x[i] + c) % Limb>> \o carry(x, i + 1, (x[i] + c) \div Limb)

\* n in 0..2^31-1
bigOf(n) == trim(<<n % Limb, (n \div Limb) % Limb, n \div (Limb * Limb)>>)

bigAdd(x, y) ==
    trim(carry([i \in 1..(IF Len(x) > Len(y) THEN Len(x) ELSE Len(y)) |->
                    limbAt(x, i) + limbAt(y, i)], 1, 0))

\* x - y for x >= y
bigSub(x, y) == trim(carry([i \in 1..Len(x) |-> x[i] - limbAt(y, i)], 1, 0))

\* x * f for f below 2^14
bigMulSmall(x, f) == trim(carry([i \in 1..Len(x) |-> x[i] * f], 1, 0))

RECURSIVE column(_, _, _, _)
column(x, y, n, i) ==
    IF i > Len(x) THEN 0 ELSE x[i] * limbAt(y, n + 1 - i) + column(x, y, n, i + 1)

\* x * y for x of at most 7 limbs
bigMul(x, y) == trim(carry([n \in 1..(Len(x) + Len(y)) |-> column(x, y, n, 1)], 1, 0))

\* long division by d below 2^14, from limb i down with remainder r
RECURSIVE divFrom(_, _, _, _)
divFrom(x, d, i, r) ==
    IF i = 0 THEN [q |-> <<>>, r |-> r]
    ELSE [q |-> Append(divFrom(x, d, i - 1, (r * Limb + x[i]) % d).q, (r * Limb + x[i]) \div d),
          r |-> divFrom(x, d, i - 1, (r * Limb + x[i]) % d).r]

bigDivSmall(x, d) == trim(divFrom(x, d, Len(x), 0).q)
bigModSmall(x, d) == divFrom(x, d, Len(x), 0).r

bigLess(x, y) ==
    \/ Len(x) < Len(y)
    \/ /\ Len(x) = Len(y)
       /\ \E i \in 1..Len(x) : x[i] < y[i] /\ \A j \in (i + 1)..Len(x) : x[j] = y[j]

bitLen(x) ==
    IF x = <<>> THEN 0
    ELSE 14 * (Len(x) - 1) + (CHOOSE n \in 1..14 : 2^(n - 1) <= x[Len(x)] /\ x[Len(x)] < 2^n)

\* x * 2^s and the whole part of x / 2^s
shl(x, s) == IF x = <<>> THEN <<>> ELSE [i \in 1..(s \div 14) |-> 0] \o bigMulSmall(x, 2^(s % 14))
shr(x, s) == bigDivSmall(SubSeq(x, (s \div 14) + 1, Len(x)), 2^(s % 14))

\* a whole number held to 53 bits, to nearest and to even on a tie
roundTo53(x, exp) ==
    IF bitLen(x) <= 53 THEN [man |-> x, exp |-> exp]
    ELSE [man |-> IF \/ bigLess(shl(<<1>>, bitLen(x) - 54),
                                bigSub(x, shl(shr(x, bitLen(x) - 53), bitLen(x) - 53)))
                     \/ /\ bigSub(x, shl(shr(x, bitLen(x) - 53), bitLen(x) - 53))
                              = shl(<<1>>, bitLen(x) - 54)
                        /\ shr(x, bitLen(x) - 53)[1] % 2 = 1
                  THEN bigAdd(shr(x, bitLen(x) - 53), <<1>>)
                  ELSE shr(x, bitLen(x) - 53),
          exp |-> exp - (bitLen(x) - 53)]

\* |g| in units of 0.0005, for a grid value g
magnitude(g) ==
    IF g.hi < 0
    THEN bigAdd(shl(bigOf(FloatSub(F(0, 0, 0), g).hi), 17),
                bigOf(2 * FloatSub(F(0, 0, 0), g).lo + FloatSub(F(0, 0, 0), g).half))
    ELSE bigAdd(shl(bigOf(g.hi), 17), bigOf(2 * g.lo + g.half))

\* the binary exponent e of m / 2000: 2^e <= m / 2000 < 2^(e+1)
binade(m) ==
    IF bigLess(shl(m, 11), shl(bigOf(125), bitLen(m) + 4)) THEN bitLen(m) - 12
    ELSE bitLen(m) - 11

\* the 53-bit mantissa nearest to (m / 2000) * 2^exp; 125 is odd, so no ties
nearest(m, exp) ==
    IF bigModSmall(shl(m, exp - 4), 125) >= 63
    THEN bigAdd(bigDivSmall(shl(m, exp - 4), 125), <<1>>)
    ELSE bigDivSmall(shl(m, exp - 4), 125)

\* the float64 of a grid value
float64Of(g) ==
    IF g = F(0, 0, 0) THEN [neg |-> FALSE, man |-> <<>>, exp |-> 0]
    ELSE [neg |-> g.hi < 0,
          man |-> nearest(magnitude(g), 52 - binade(magnitude(g))),
          exp |-> 52 - binade(magnitude(g))]

\* a - b in float64 for a above b: the exact difference, then rounded
float64Sub(a, b) ==
    roundTo53(
        IF a.neg THEN bigSub(shl(b.man, (IF a.exp > b.exp THEN a.exp ELSE b.exp) - b.exp),
                             shl(a.man, (IF a.exp > b.exp THEN a.exp ELSE b.exp) - a.exp))
        ELSE IF b.neg THEN bigAdd(shl(a.man, (IF a.exp > b.exp THEN a.exp ELSE b.exp) - a.exp),
                                  shl(b.man, (IF a.exp > b.exp THEN a.exp ELSE b.exp) - b.exp))
        ELSE bigSub(shl(a.man, (IF a.exp > b.exp THEN a.exp ELSE b.exp) - a.exp),
                    shl(b.man, (IF a.exp > b.exp THEN a.exp ELSE b.exp) - b.exp)),
        IF a.exp > b.exp THEN a.exp ELSE b.exp)

\* the float64 of the scale 0.001: 16#10624DD2F1A9FC / 2^62
xScale64 == [neg |-> FALSE, man |-> <<10748, 3014, 9437, 1048>>, exp |-> 62]

\* k as a whole number, for k >= 1 in halves
bigOfHalves(k) == bigAdd(shl(bigOf(k.hi), 16), bigOf(k.lo))

\* d / scale in float64 comes out below the whole number k >= 1: the quotient
\* is rounded to nearest (a tie goes to k, whose mantissa is even), so it does
\* exactly when d < (k - half a unit in the last place under k) * scale
quotientBelow(d, k) ==
    bigLess(shl(d.man, (54 - bitLen(bigSub(k, <<1>>))) + xScale64.exp - d.exp),
            bigMul(xScale64.man, bigSub(shl(k, 54 - bitLen(bigSub(k, <<1>>))), <<1>>)))

\* one less than q >= 1, in halves
oneLess(q) == IF q.lo = 0 THEN [hi |-> q.hi - 1, lo |-> 65535] ELSE [hi |-> q.hi, lo |-> q.lo - 1]
negated(q) == IF q.lo = 0 THEN [hi |-> -q.hi, lo |-> 0] ELSE [hi |-> -q.hi - 1, lo |-> 65536 - q.lo]

\* (value - minimum) / 0.001 in float64, cut to a whole number toward zero, for
\* value >= minimum: the whole part of the decimal quotient, or one less where
\* the float64 quotient comes out below it
cutQuotient(value, minimum) ==
    IF FloatSub(value, minimum).hi = 0 /\ FloatSub(value, minimum).lo = 0 THEN [hi |-> 0, lo |-> 0]
    ELSE IF quotientBelow(float64Sub(float64Of(value), float64Of(minimum)),
                          bigOfHalves(FloatSub(value, minimum)))
         THEN oneLess([hi |-> FloatSub(value, minimum).hi, lo |-> FloatSub(value, minimum).lo])
    ELSE [hi |-> FloatSub(value, minimum).hi, lo |-> FloatSub(value, minimum).lo]

\* value - minimum in float64 where one of them is no number of the grid: NaN
\* from NaN and from two infinities of one sign, else the infinity or the end
\* of float64 that takes part (a - MaxFloat64 is -MaxFloat64 for a on the grid)
floatSubBeside(value, minimum) ==
    IF IsNaN(value) \/ IsNaN(minimum) THEN NaN
    ELSE IF IsInf(value) THEN (IF minimum = value THEN NaN ELSE value)
    ELSE IF IsInf(minimum) THEN (IF minimum = PosInf THEN NegInf ELSE PosInf)
    ELSE IF value = minimum THEN F(0, 0, 0)
    ELSE IF value = MaxFloat64 \/ minimum = NegMaxFloat64
         THEN (IF value = MaxFloat64 /\ minimum = NegMaxFloat64 THEN PosInf ELSE MaxFloat64)
    ELSE IF value = NegMaxFloat64 /\ minimum = MaxFloat64 THEN NegInf
    ELSE NegMaxFloat64

\* d / xScale in float64 for d beside the grid: an end of float64 over 0.001
\* is beyond float64
floatDivBeside(d) ==
    IF d = MaxFloat64 THEN PosInf
    ELSE IF d = NegMaxFloat64 THEN NegInf
    ELSE d

\* (value - minimum) / xScale: cut toward zero, as int32(...) cuts it, for a
\* quotient that is a number; else the infinity or NaN that the quotient is
truncQuotient(value, minimum) ==
    IF ~IsGrid(value) \/ ~IsGrid(minimum)
    THEN (IF floatSubBeside(value, minimum) = F(0, 0, 0) THEN [hi |-> 0, lo |-> 0]
          ELSE floatDivBeside(floatSubBeside(value, minimum)))
    ELSE IF FloatLess(value, minimum) THEN negated(cutQuotient(minimum, value))
    ELSE cutQuotient(value, minimum)

\* What a build makes of int32(f) when f lies outside int32 or is no number: the
\* Go specification leaves the value to the implementation (amd64 yields the
\* minimum; arm64 saturates, with 0 for NaN; others keep the low 32 bits, which
\* are 0 for what is no number)
Conversions == {"indefinite", "saturate", "wrap"}

\* int32(f) for f an infinity or NaN
int32Beside(f, conv) ==
    IF conv = "indefinite" THEN [hi |-> -32768, lo |-> 0]
    ELSE IF conv = "saturate"
         THEN IF f = PosInf THEN [hi |-> 32767, lo |-> 65535]
              ELSE IF f = NegInf THEN [hi |-> -32768, lo |-> 0]
              ELSE [hi |-> 0, lo |-> 0]
    ELSE [hi |-> 0, lo |-> 0]

\* int32(f) for the whole number q = f cut toward zero
int32Of(q, conv) ==
    IF IsInf(q) \/ IsNaN(q) THEN int32Beside(q, conv)
    ELSE IF q.hi >= -32768 /\ q.hi <= 32767 THEN q
    ELSE IF conv = "indefinite" THEN [hi |-> -32768, lo |-> 0]
    ELSE IF conv = "saturate"
         THEN IF q.hi < 0 THEN [hi |-> -32768, lo |-> 0] ELSE [hi |-> 32767, lo |-> 65535]
    ELSE [hi |-> ((q.hi + 32768) % 65536) - 32768, lo |-> q.lo]

\* int32((value - minimum) / xScale)
int32Quotient(value, minimum, conv) == int32Of(truncQuotient(value, minimum), conv)

Point(x, y, z, intensity, r, g, b, class, gps) ==
    [X |-> x, Y |-> y, Z |-> z, Intensity |-> intensity, R |-> r, G |-> g, B |-> b,
     Classification |-> class, GPSTime |-> gps]

NewWriter ==
    [points |-> <<>>,
     minX |-> MaxFloat64, minY |-> MaxFloat64, minZ |-> MaxFloat64,
     maxX |-> NegMaxFloat64, maxY |-> NegMaxFloat64, maxZ |-> NegMaxFloat64]

\* AddPoint, lines 38-46: a bound moves where the comparison holds, which it
\* does for no NaN, for no +Inf against the first minimum and for no -Inf
\* against the first maximum
addPoint(wr, p) ==
    [points |-> Append(wr.points, p),
     minX |-> IF FloatLess(p.X, wr.minX) THEN p.X ELSE wr.minX,
     minY |-> IF FloatLess(p.Y, wr.minY) THEN p.Y ELSE wr.minY,
     minZ |-> IF FloatLess(p.Z, wr.minZ) THEN p.Z ELSE wr.minZ,
     maxX |-> IF FloatLess(wr.maxX, p.X) THEN p.X ELSE wr.maxX,
     maxY |-> IF FloatLess(wr.maxY, p.Y) THEN p.Y ELSE wr.maxY,
     maxZ |-> IF FloatLess(wr.maxZ, p.Z) THEN p.Z ELSE wr.maxZ]

\* "LASF", "CompactMapper", "CompactMapper v1.0" as bytes
Signature == <<76, 65, 83, 70>>
SystemIdentifier == <<67, 111, 109, 112, 97, 99, 116, 77, 97, 112, 112, 101, 114>>
GeneratingSoftware == SystemIdentifier \o <<32, 118, 49, 46, 48>>

\* the 227 header bytes for a point format, record length and number of points
headerBytes(format, reclen, count, wr, now) ==
    Signature \o PutUint16(0) \o PutUint16(1) \o zeros(16) \o <<1, 2>>
    \o copyInto(32, SystemIdentifier) \o copyInto(32, GeneratingSoftware)
    \o PutUint16(now.yday) \o PutUint16(now.year)
    \o PutUint16(HeaderSize) \o PutUint32(HeaderSize) \o PutUint32(0)
    \o <<format>> \o PutUint16(reclen) \o PutUint32(count) \o PutUint32(count)
    \o zeros(16)
    \o Float64bits(xScale) \o Float64bits(xScale) \o Float64bits(xScale)
    \o Float64bits(wr.minX) \o Float64bits(wr.minY) \o Float64bits(wr.minZ)
    \o Float64bits(wr.maxX) \o Float64bits(wr.maxY) \o Float64bits(wr.maxZ)
    \o Float64bits(wr.minX) \o Float64bits(wr.minY) \o Float64bits(wr.minZ)

\* the header with the record length of format 2 under format 3: a slip
writeHeaderLength26(wr, now) == headerBytes(3, RecordLength2, Len(wr.points), wr, now)

\* Write, lines 68-142
writeHeader(wr, now) == headerBytes(3, RecordLength3, Len(wr.points), wr, now)

\* Write, lines 151-186: the 34 bytes of one point
pointData(p, wr, conv) ==
    PutInt32(int32Quotient(p.X, wr.minX, conv))
    \o PutInt32(int32Quotient(p.Y, wr.minY, conv))
    \o PutInt32(int32Quotient(p.Z, wr.minZ, conv))
    \o PutUint16(p.Intensity) \o <<1, p.Classification, 0, 0>> \o PutUint16(0)
    \o Float64bits(p.GPSTime)
    \o PutUint16(p.R) \o PutUint16(p.G) \o PutUint16(p.B)

writePoints(wr, conv) == Concat([i \in 1..Len(wr.points) |-> pointData(wr.points[i], wr, conv)])

\* Write with os.Create moved in front of the check for points: a slip
fileAfterCreate(wr, file, now, conv) ==
    IF Len(wr.points) = 0 THEN [exists |-> TRUE, bytes |-> <<>>]
    ELSE [exists |-> TRUE, bytes |-> writeHeader(wr, now) \o writePoints(wr, conv)]

\* the file at the path after Write: untouched without points, else created or
\* truncated by os.Create and filled with the header and the point records
fileAfterWrite(wr, file, now, conv) ==
    IF Len(wr.points) = 0 THEN file
    ELSE [exists |-> TRUE, bytes |-> writeHeader(wr, now) \o writePoints(wr, conv)]

parseHeader(header) ==
    [VersionMajor |-> at(header, 24), VersionMinor |-> at(header, 25),
     PointFormat |-> at(header, 104),
     PointRecordLength |-> Uint16(slice(header, 105, 107)),
     PointCount |-> Uint32(slice(header, 107, 111)),
     XScale |-> Float64frombits(slice(header, 131, 139)),
     YScale |-> Float64frombits(slice(header, 139, 147)),
     ZScale |-> Float64frombits(slice(header, 147, 155)),
     XOffset |-> Float64frombits(slice(header, 155, 163)),
     YOffset |-> Float64frombits(slice(header, 163, 171)),
     ZOffset |-> Float64frombits(slice(header, 171, 179)),
     MaxX |-> Float64frombits(slice(header, 179, 187)),
     MaxY |-> Float64frombits(slice(header, 187, 195)),
     MaxZ |-> Float64frombits(slice(header, 195, 203)),
     MinX |-> Float64frombits(slice(header, 203, 211)),
     MinY |-> Float64frombits(slice(header, 211, 219)),
     MinZ |-> Float64frombits(slice(header, 219, 227))]

\* readHeader without the look at the signature: a slip
readHeaderAnySignature(bytes) ==
    IF Len(bytes) < HeaderSize THEN [err |-> TRUE, header |-> NoHeader]
    ELSE [err |-> FALSE, header |-> parseHeader(slice(bytes, 0, HeaderSize))]

\* io.ReadFull of 227 bytes fails on a shorter file
readHeader(bytes) ==
    IF Len(bytes) < HeaderSize THEN [err |-> TRUE, header |-> NoHeader]
    ELSE IF slice(bytes, 0, 4) # Signature THEN [err |-> TRUE, header |-> NoHeader]
    ELSE [err |-> FALSE, header |-> parseHeader(slice(bytes, 0, HeaderSize))]

decodeX(h, rec) == FloatAdd(FloatMulInt(Int32(slice(rec, 0, 4)), h.XScale), h.XOffset)
decodeY(h, rec) == FloatAdd(FloatMulInt(Int32(slice(rec, 4, 8)), h.YScale), h.YOffset)
decodeZ(h, rec) == FloatAdd(FloatMulInt(Int32(slice(rec, 8, 12)), h.ZScale), h.ZOffset)

decodeFormat2(h, rec) ==
    Point(decodeX(h, rec), decodeY(h, rec), decodeZ(h, rec),
          Uint16(slice(rec, 12, 14)),
          Uint16(slice(rec, 20, 22)), Uint16(slice(rec, 22, 24)),
          Uint16(slice(rec, 24, 26)),
          at(rec, 15), F(0, 0, 0))

decodeFormat3(h, rec) ==
    Point(decodeX(h, rec), decodeY(h, rec), decodeZ(h, rec),
          Uint16(slice(rec, 12, 14)),
          Uint16(slice(rec, 28, 30)), Uint16(slice(rec, 30, 32)),
          Uint16(slice(rec, 32, 34)),
          at(rec, 15), Float64frombits(slice(rec, 20, 28)))

\* the loop of readPointsFormat2 from record i on; data is the file from byte 227
RECURSIVE format2Loop(_, _, _, _)
format2Loop(h, data, i, points) ==
    IF i >= h.PointCount THEN [status |-> "ok", points |-> points]
    ELSE IF Len(data) < (i + 1) * RecordLength2 THEN [status |-> "err", points |-> <<>>]
    ELSE format2Loop(h, data, i + 1,
             Append(points, decodeFormat2(h, slice(data, i * RecordLength2,
                                                   (i + 1) * RecordLength2))))

readPointsFormat2(h, data) == format2Loop(h, data, 0, <<>>)

\* the loop of readPointsFormat3 that ends at a short read with what it has: a slip
RECURSIVE format3LoopShort(_, _, _, _)
format3LoopShort(h, data, i, points) ==
    IF i >= h.PointCount THEN [status |-> "ok", points |-> points]
    ELSE IF Len(data) < (i + 1) * RecordLength3 THEN [status |-> "ok", points |-> points]
    ELSE format3LoopShort(h, data, i + 1,
             Append(points, decodeFormat3(h, slice(data, i * RecordLength3,
                                                   (i + 1) * RecordLength3))))

RECURSIVE format3Loop(_, _, _, _)
format3Loop(h, data, i, points) ==
    IF i >= h.PointCount THEN [status |-> "ok", points |-> points]
    ELSE IF Len(data) < (i + 1) * RecordLength3 THEN [status |-> "err", points |-> <<>>]
    ELSE format3Loop(h, data, i + 1,
             Append(points, decodeFormat3(h, slice(data, i * RecordLength3,
                                                   (i + 1) * RecordLength3))))

readPointsFormat3Short(h, data) == format3LoopShort(h, data, 0, <<>>)

readPointsFormat3(h, data) == format3Loop(h, data, 0, <<>>)

\* ReadPoints that takes every format but 2 for format 3: a slip
readPointsDefault3(h, data) ==
    IF h.PointFormat = 2 THEN readPointsFormat2(h, data)
    ELSE readPointsFormat3(h, data)

\* ReadPoints after its seek, lines 108-115: data is the file from its offset on
readPoints(h, data) ==
    IF h.PointFormat = 2 THEN readPointsFormat2(h, data)
    ELSE IF h.PointFormat = 3 THEN readPointsFormat3(h, data)
    ELSE [status |-> "err", points |-> <<>>]

\* ReadPoints without the seek: the offset stays where the last read left it: a slip
seekNowhere(offset) == offset

\* ReadPoints, lines 103-106: r.file.Seek(227, 0), the offset after it
seekPointData(offset) == HeaderSize

\* the offset of the file after ReadPoints has read data from offset on:
\* io.ReadFull takes what is left of a short record
offsetAfterRead(h, data, offset) ==
    IF h.PointFormat \notin {2, 3} THEN offset
    ELSE IF Len(data) >= h.PointCount * (IF h.PointFormat = 2 THEN RecordLength2
                                         ELSE RecordLength3)
    THEN offset + h.PointCount * (IF h.PointFormat = 2 THEN RecordLength2 ELSE RecordLength3)
    ELSE offset + Len(data)

(***************************************************************************)
(* The operations of package las on one path                               *)
(***************************************************************************)
AddPoint(p) ==
    /\ writeRet = "none"
    /\ writer' = addPoint(writer, p)
    /\ UNCHANGED <<disk, disk0, writeRet, rd, newRet, handles, readRet, kvars, svars, pvars, gvars, bvars>>

\* Writer.Write(filename); the file it creates is closed again on return
WriterWrite(now, conv) ==
    /\ writeRet = "none" /\ newRet = "none"
    /\ disk0' = disk
    /\ disk' = fileAfterWrite(writer, disk, now, conv)
    /\ writeRet' = IF Len(writer.points) = 0 THEN "err" ELSE "ok"
    /\ UNCHANGED <<writer, rd, newRet, handles, readRet, kvars, svars, pvars, gvars, bvars>>

\* NewReader(filename)
NewReader ==
    /\ newRet = "none"
    /\ IF ~disk.exists
       THEN rd' = NoReader /\ newRet' = "err" /\ handles' = handles
       ELSE IF readHeader(disk.bytes).err
       THEN \* file.Close() on the handle os.Open had returned
            rd' = NoReader /\ newRet' = "err" /\ handles' = (handles + 1) - 1
       ELSE /\ rd' = [nil |-> FALSE, open |-> TRUE, header |-> readHeader(disk.bytes).header,
                       offset |-> HeaderSize, calls |-> 0]
            /\ newRet' = "ok"
            /\ handles' = handles + 1
    /\ UNCHANGED <<writer, disk, disk0, writeRet, readRet, kvars, svars, pvars, gvars, bvars>>

\* Reader.ReadPoints()
ReadPoints ==
    /\ newRet = "ok" /\ rd.open
    /\ readRet' = readPoints(rd.header, Drop(disk.bytes, seekPointData(rd.offset)))
    /\ rd' = [rd EXCEPT
           !.offset = offsetAfterRead(rd.header, Drop(disk.bytes, seekPointData(rd.offset)),
                                      seekPointData(rd.offset)),
           !.calls = @ + 1]
    /\ UNCHANGED <<writer, disk, disk0, writeRet, newRet, handles, kvars, svars, pvars, gvars, bvars>>

\* Reader.Close()
Close ==
    /\ newRet = "ok" /\ rd.open
    /\ rd' = [rd EXCEPT !.open = FALSE]
    /\ handles' = handles - 1
    /\ UNCHANGED <<writer, disk, disk0, writeRet, newRet, readRet, kvars, svars, pvars, gvars, bvars>>

\* The file is cut to its first n bytes by something else than the program
Truncate(n) ==
    /\ newRet = "none"
    /\ disk.exists /\ n < Len(disk.bytes)
    /\ disk' = [disk EXCEPT !.bytes = SubSeq(@, 1, n)]
    /\ UNCHANGED <<writer, disk0, writeRet, rd, newRet, handles, readRet, kvars, svars, pvars, gvars, bvars>>

\* One byte of the signature is overwritten by something else than the program
Corrupt(i) ==
    /\ newRet = "none"
    /\ disk.exists /\ Len(disk.bytes) >= 4 /\ SubSeq(disk.bytes, 1, 4) = Signature
    /\ disk' = [disk EXCEPT !.bytes[i] = 88]
    /\ UNCHANGED <<writer, disk0, writeRet, rd, newRet, handles, readRet, kvars, svars, pvars, gvars, bvars>>

(***************************************************************************)
(* las harness: a writer is given up to MaxPoints points and written once; *)
(* the path may hold a file beforehand; the file is then opened, read and  *)
(* closed.                                                                 *)
(***************************************************************************)
MaxPoints == 2
MaxReads == 2

GPS1 == F(26363772, 41008, 0)
GPS2 == F(26363772, 41208, 0)

\* (100.5, 200.3, 5.2), (100.6005, 200.4, 5.3), (3000000.0, 200.5, 5.4005),
\* (-5.25, 200.3, -0.0005)
PtA == Point(F(1, 34964, 0), F(3, 3692, 0), F(0, 5200, 0), 100, 65535, 0, 0, 1, GPS1)
PtB == Point(F(1, 35064, 1), F(3, 3792, 0), F(0, 5300, 0), 150, 0, 65535, 0, 2, GPS2)
PtC == Point(F(45776, 24064, 0), F(3, 3892, 0), F(0, 5400, 1), 513, 0, 0, 4660, 3, GPS2)
PtD == Point(F(-1, 60286, 0), F(3, 3692, 0), F(-1, 65535, 1), 0, 255, 256, 65535, 255, GPS1)
\* a row whose CellE_m, CellN_m and Elevation_m read "Inf", "NaN" and "-Inf":
\* strconv.ParseFloat returns these values without error
PtE == Point(PosInf, NaN, NegInf, 100, 0, 0, 0, 1, GPS1)
PointPool == {PtA, PtB, PtC, PtD, PtE}

\* time.Now(): day of the year and year
Clock == {[yday |-> 303, year |-> 2026], [yday |-> 366, year |-> 2024]}

\* "NOT A LAS FILE"
NotLas == <<78, 79, 84, 32, 65, 32, 76, 65, 83, 32, 70, 73, 76, 69>>

\* a format 2 file of another LAS writer, holding PtA and PtB
Format2Writer == addPoint(addPoint(NewWriter, PtA), PtB)
format2Data(p, wr) ==
    PutInt32(int32Quotient(p.X, wr.minX, "wrap"))
    \o PutInt32(int32Quotient(p.Y, wr.minY, "wrap"))
    \o PutInt32(int32Quotient(p.Z, wr.minZ, "wrap"))
    \o PutUint16(p.Intensity) \o <<1, p.Classification, 0, 0>> \o PutUint16(0)
    \o PutUint16(p.R) \o PutUint16(p.G) \o PutUint16(p.B)
Format2File ==
    headerBytes(2, RecordLength2, 2, Format2Writer, [yday |-> 1, year |-> 2025])
    \o format2Data(PtA, Format2Writer) \o format2Data(PtB, Format2Writer)

\* a format 5 file (63-byte records: those of format 3 and 29 bytes of wave
\* packet data) of another LAS writer, holding PtA and PtB
format5Data(p, wr) == pointData(p, wr, "wrap") \o zeros(29)
Format5File ==
    headerBytes(5, 63, 2, Format2Writer, [yday |-> 1, year |-> 2025])
    \o format5Data(PtA, Format2Writer) \o format5Data(PtB, Format2Writer)

InitialDisks ==
    {NoFile, [exists |-> TRUE, bytes |-> NotLas], [exists |-> TRUE, bytes |-> Format2File],
     [exists |-> TRUE, bytes |-> Format5File]}

TruncLengths == {3, 226, 227, 244, 261, 278}

LasInit ==
    /\ KeyIdle
    /\ SortIdle
    /\ PipeIdle
    /\ GuiIdle
    /\ CliIdle
    /\ writer = NewWriter
    /\ disk \in InitialDisks
    /\ disk0 = disk
    /\ writeRet = "none" /\ rd = NoReader /\ newRet = "none" /\ handles = 0
    /\ readRet = NoRead

\* the writer works on the file as found; Cut and Scribble come after it; the
\* file is then opened and read up to MaxReads times
Add == Len(writer.points) < MaxPoints /\ disk = disk0 /\ \E p \in PointPool : AddPoint(p)
WriteFile == disk = disk0 /\ \E now \in Clock, conv \in Conversions : WriterWrite(now, conv)
Read == newRet = "ok" /\ rd.calls < MaxReads /\ ReadPoints
Cut == \E n \in TruncLengths : Truncate(n)
Scribble == \E i \in 1..4 : Corrupt(i)

LasNext ==
    \/ Add
    \/ WriteFile
    \/ Cut
    \/ Scribble
    \/ NewReader
    \/ Read
    \/ Close

SpecLas == LasInit /\ [][LasNext]_vars

(***************************************************************************)
(* las properties                                                          *)
(***************************************************************************)
\* the file is as a successful Write of the writer's points left it: Cut and
\* Scribble shorten it or spoil its signature
Intact ==
    /\ writeRet = "ok"
    /\ Len(disk.bytes) = HeaderSize + RecordLength3 * Len(writer.points)
    /\ SubSeq(disk.bytes, 1, 4) = Signature

\* |a - b| <= 0.001, which no infinity, NaN or end of float64 is of a number
WithinScale(a, b) ==
    IF IsGrid(a) /\ IsGrid(b)
    THEN ~FloatLess(xScale, FloatSub(a, b)) /\ ~FloatLess(xScale, FloatSub(b, a))
    ELSE ~IsNaN(a) /\ ~IsInf(a) /\ a = b

RoundTripped(in, out) ==
    /\ out.R = in.R /\ out.G = in.G /\ out.B = in.B
    /\ out.Intensity = in.Intensity /\ out.Classification = in.Classification
    /\ out.GPSTime = in.GPSTime
    /\ WithinScale(in.X, out.X) /\ WithinScale(in.Y, out.Y) /\ WithinScale(in.Z, out.Z)

\* C3: round trip: for every non-empty sequence of N points, Write followed by
\* NewReader and ReadPoints yields N points in the same order, with R, G, B,
\* intensity, classification and timestamp equal to the input's and X, Y, Z
\* within one scale unit (0.001) of the input's.
C3_RoundTrip ==
    Intact =>
        /\ newRet # "none" => newRet = "ok"
        /\ readRet.status # "none" =>
               /\ readRet.status = "ok"
               /\ Len(readRet.points) = Len(writer.points)
               /\ \A i \in 1..Len(writer.points) :
                      RoundTripped(writer.points[i], readRet.points[i])

\* C8: Write on a writer without points returns an error and leaves the path as
\* it was: no file is created and an existing file keeps its content.
C8_EmptyWriteLeavesPath ==
    [][(writeRet = "none" /\ writeRet' # "none" /\ Len(writer.points) = 0)
           => (writeRet' = "err" /\ disk' = disk)]_vars

\* Write has failed on an empty writer with a file at the path, which is as before
C8_Witness ==
    /\ writeRet = "err"
    /\ Len(writer.points) = 0
    /\ disk0.exists /\ Len(disk0.bytes) > 0
    /\ disk = disk0

RecordLengthOf(format) == IF format = 2 THEN RecordLength2 ELSE RecordLength3

\* C9: when the file ends before header.PointCount complete records, ReadPoints
\* returns an error and no point list; when it succeeds, the list has exactly
\* header.PointCount points.
C9_ShortReadFails ==
    (readRet.status # "none" /\ rd.header.PointFormat \in {2, 3}) =>
        /\ Len(disk.bytes) < HeaderSize + rd.header.PointCount
                                             * RecordLengthOf(rd.header.PointFormat)
               => readRet = [status |-> "err", points |-> <<>>]
        /\ readRet.status = "ok" => Len(readRet.points) = rd.header.PointCount

\* a format 3 file of two declared points, cut inside the second record: the
\* first record is complete, and yet no list is returned
C9_Witness ==
    /\ readRet.status = "err" /\ readRet.points = <<>>
    /\ rd.header.PointFormat = 3 /\ rd.header.PointCount = 2
    /\ Len(disk.bytes) > HeaderSize + RecordLength3
    /\ Len(disk.bytes) < HeaderSize + 2 * RecordLength3

HasSignature(bytes) == Len(bytes) >= 4 /\ SubSeq(bytes, 1, 4) = Signature

\* C10: NewReader fails for every file whose first 4 bytes are not "LASF",
\* whatever its length; it then returns no reader and leaves no handle open.
C10_WrongSignatureFails ==
    (newRet # "none" /\ disk.exists /\ ~HasSignature(disk.bytes)) =>
        /\ newRet = "err"
        /\ rd = NoReader
        /\ handles = 0

\* NewReader has failed on a file longer than the header whose signature is wrong
C10_Witness ==
    /\ newRet = "err" /\ rd = NoReader /\ handles = 0
    /\ disk.exists /\ Len(disk.bytes) > HeaderSize
    /\ ~HasSignature(disk.bytes)

\* record i (from 1) of the file, for records of reclen bytes
RecordAt(i, reclen) ==
    SubSeq(disk.bytes, HeaderSize + (i - 1) * reclen + 1, HeaderSize + i * reclen)

\* C11: decoding dispatches on the header's point format: format 2 is decoded as
\* 26-byte records (colour at bytes 20-26) with every timestamp zero, format 3
\* as 34-byte records with the timestamp from bytes 20-28 and the colour from
\* bytes 28-34, and every other format fails without returning any point.
C11_FormatDispatch ==
    readRet.status # "none" =>
        /\ rd.header.PointFormat = 2 =>
               \A i \in 1..Len(readRet.points) :
                   /\ readRet.points[i].GPSTime = F(0, 0, 0)
                   /\ readRet.points[i].R = Uint16(SubSeq(RecordAt(i, 26), 21, 22))
                   /\ readRet.points[i].G = Uint16(SubSeq(RecordAt(i, 26), 23, 24))
                   /\ readRet.points[i].B = Uint16(SubSeq(RecordAt(i, 26), 25, 26))
        /\ rd.header.PointFormat = 3 =>
               \A i \in 1..Len(readRet.points) :
                   /\ readRet.points[i].GPSTime = Float64frombits(SubSeq(RecordAt(i, 34), 21, 28))
                   /\ readRet.points[i].R = Uint16(SubSeq(RecordAt(i, 34), 29, 30))
                   /\ readRet.points[i].G = Uint16(SubSeq(RecordAt(i, 34), 31, 32))
                   /\ readRet.points[i].B = Uint16(SubSeq(RecordAt(i, 34), 33, 34))
        /\ rd.header.PointFormat \notin {2, 3} =>
               readRet = [status |-> "err", points |-> <<>>]

\* ReadPoints has failed on a complete file of another format that declares points
C11_Witness ==
    /\ readRet = [status |-> "err", points |-> <<>>]
    /\ rd.header.PointFormat \notin {2, 3}
    /\ rd.header.PointCount > 0
    /\ Len(disk.bytes) = HeaderSize + rd.header.PointCount * rd.header.PointRecordLength

MissingColumn(header) ==
    \/ ~\E i \in 1..Len(header) : header[i] = ColTime
    \/ ~\E i \in 1..Len(header) : header[i] = ColDesignName
    \/ ~\E i \in 1..Len(header) : header[i] = ColLastAmp

\* the output directory is as it was when SortCSV was called
DirUntouched ==
    /\ DOMAIN dir = DOMAIN dir0
    /\ \A f \in DOMAIN dir : dir[f] = dir0[f]

\* C12: if the header lacks Time, DesignName or LastAmp, SortCSV fails with a
\* schema error before any data row is read or processed, in skip mode as in
\* non-skip mode, and no artifact is created or modified.
C12_SchemaError ==
    (pc # "idle" /\ MissingColumn(src.header)) =>
        /\ pc = "done" /\ ret = "err"
        /\ pos = 1 /\ rowCount = 0 /\ skippedRows = 0
        /\ chunk = <<>> /\ DOMAIN groups = {}
        /\ errorLog.lines = <<>>
        /\ DirUntouched

\* a source without LastAmp that has a data row, in skip mode, into a directory
\* that holds an artifact
C12_Witness ==
    /\ pc = "done" /\ ret = "err"
    /\ skipErrors
    /\ src.header = HeaderNoAmp /\ Len(src.rows) > 0
    /\ DOMAIN dir0 # {} /\ DirUntouched

\* a data row that cannot be read (wrong number of fields) or whose date does
\* not parse
HasBadRow == \E i \in 1..Len(src.rows) : ~Accepted(src.rows[i])

\* C13: in non-skip mode, when any data row fails to parse, at any position,
\* SortCSV returns an error and none of the source's rows reach the output: no
\* artifact is created and no existing artifact is modified.
C13_NonSkipAborts ==
    (pc # "idle" /\ ~skipErrors /\ ~MissingColumn(src.header)) =>
        \/ /\ pc \in {"read", "done"}
           /\ pc = "done" => ret = "err"
           /\ DirUntouched
        \/ ~HasBadRow

\* the bad row is the last one, in the chunk after a first chunk that was grouped
C13_Witness ==
    /\ pc = "done" /\ ret = "err" /\ ~skipErrors
    /\ Len(src.rows) = chunkSize + 1
    /\ \A i \in 1..chunkSize : Accepted(src.rows[i])
    /\ ~Accepted(src.rows[chunkSize + 1])
    /\ DOMAIN groups # {}
    /\ DOMAIN dir0 # {} /\ DirUntouched

\* how often row occurs in a sequence of rows
Occurrences(rows, row) == Cardinality({i \in 1..Len(rows) : rows[i] = row})

\* the number of data records this call has written to the artifacts in names
RECURSIVE WrittenCount(_)
WrittenCount(names) ==
    IF names = {} THEN 0
    ELSE Len(Written(CHOOSE f \in names : TRUE))
             + WrittenCount(names \ {CHOOSE f \in names : TRUE})

\* C14: row conservation: when SortCSV returns without error, every data row is
\* either written to exactly one artifact exactly once or, in skip mode only,
\* counted as skipped and written to no artifact; rows written plus rows
\* skipped equals the number of data rows of the source.
C14_RowConservation ==
    Finished =>
        LET keys == AcceptedKey
        IN  /\ \A i \in 1..Len(src.rows) :
                   IF src.rows[i] \in DOMAIN keys
                   THEN \E f \in DOMAIN dir :
                            /\ Occurrences(Written(f), src.rows[i])
                                   = Occurrences(src.rows, src.rows[i])
                            /\ \A g \in DOMAIN dir \ {f} :
                                   Occurrences(Written(g), src.rows[i]) = 0
                   ELSE /\ skipErrors
                        /\ \A f \in DOMAIN dir : Occurrences(Written(f), src.rows[i]) = 0
            /\ skippedRows = Cardinality({i \in 1..Len(src.rows) : src.rows[i] \notin DOMAIN keys})
            /\ WrittenCount(DOMAIN dir) + skippedRows = Len(src.rows)

\* a skip-mode run over more than one chunk that skipped one row and wrote the
\* others, one of them twice in the source
C14_Witness ==
    /\ Finished /\ skipErrors
    /\ Len(src.rows) = chunkSize + 1
    /\ skippedRows = 1
    /\ WrittenCount(DOMAIN dir) = chunkSize
    /\ src.rows[1] = src.rows[Len(src.rows)]

\* C15: after any sequence of SortCSV runs into one output directory, every
\* artifact holds the column header line exactly once, as its first line: the
\* header is written when and only when the artifact did not exist before, and
\* later writes add data rows only.
C15_HeaderOnce ==
    \A f \in DOMAIN dir :
        /\ dir[f][1] = Header
        /\ Occurrences(dir[f], Header) = 1
        /\ f \in DOMAIN dir0 =>
               /\ Len(dir[f]) >= Len(dir0[f])
               /\ SubSeq(dir[f], 1, Len(dir0[f])) = dir0[f]

\* an artifact created by the first call and extended by the second
C15_Witness ==
    /\ Finished /\ Len(dirAt) = 2
    /\ \E f \in DOMAIN dir :
           /\ f \notin DOMAIN dirAt[1]
           /\ f \in DOMAIN dir0
           /\ Len(dir[f]) > Len(dir0[f])
           /\ dir[f][1] = Header /\ Occurrences(dir[f], Header) = 1

\* C16: SortCSV only appends to artifacts that exist, so running it twice on the
\* same source into the same (at first empty) output directory leaves every
\* artifact with one header line and every data row of its group twice, in two
\* consecutive copies of the original order.
C16_RerunDoubles ==
    /\ \A f \in DOMAIN dir0 :
           /\ f \in DOMAIN dir
           /\ Len(dir[f]) >= Len(dir0[f])
           /\ SubSeq(dir[f], 1, Len(dir0[f])) = dir0[f]
    /\ (Finished /\ Len(dirAt) = 2 /\ DOMAIN dirAt[1] = {}) =>
           \A f \in DOMAIN dir :
               /\ f \in DOMAIN dir0
               /\ dir[f] = <<Header>> \o Written(f) \o Written(f)


\* lo is the least and hi the greatest of the values vs: lo <= v <= hi for
\* every v of them
IsMinMax(lo, hi, vs) ==
    /\ lo \in vs /\ hi \in vs
    /\ \A v \in vs : FloatLeq(lo, v) /\ FloatLeq(v, hi)

\* the header of the file at the path, as its bytes stand
DiskHeader == parseHeader(slice(disk.bytes, 0, HeaderSize))

\* the bounds of the writer are the least and the greatest coordinate of its
\* points on every axis
BoundsAreMinMax ==
    /\ IsMinMax(writer.minX, writer.maxX, {writer.points[i].X : i \in 1..Len(writer.points)})
    /\ IsMinMax(writer.minY, writer.maxY, {writer.points[i].Y : i \in 1..Len(writer.points)})
    /\ IsMinMax(writer.minZ, writer.maxZ, {writer.points[i].Z : i \in 1..Len(writer.points)})

\* the header of the written file holds the writer's bounds, the minimum of an
\* axis as its offset too
HeaderHoldsBounds ==
    /\ DiskHeader.MinX = writer.minX /\ DiskHeader.MaxX = writer.maxX
    /\ DiskHeader.MinY = writer.minY /\ DiskHeader.MaxY = writer.maxY
    /\ DiskHeader.MinZ = writer.minZ /\ DiskHeader.MaxZ = writer.maxZ
    /\ DiskHeader.XOffset = writer.minX
    /\ DiskHeader.YOffset = writer.minY
    /\ DiskHeader.ZOffset = writer.minZ

\* C17: after one or more AddPoint calls the writer's bounds enclose every added
\* point on every axis (min <= coordinate <= max) and are the least and the
\* greatest coordinate among the added points; Write stores these values as the
\* header's min and max bounds and the minimum of each axis as that axis's
\* offset.
C17_Bounds ==
    /\ Len(writer.points) > 0 => BoundsAreMinMax
    /\ (writeRet = "ok" /\ Len(disk.bytes) >= HeaderSize) => HeaderHoldsBounds

\* every coordinate of every point of the writer is a number
AllNumbers ==
    \A i \in 1..Len(writer.points) :
        IsGrid(writer.points[i].X) /\ IsGrid(writer.points[i].Y) /\ IsGrid(writer.points[i].Z)

\* for points whose coordinates are all numbers the bounds are the least and
\* the greatest coordinate, and Write stores what the writer holds in every case
BoundsOfNumbers ==
    /\ (Len(writer.points) > 0 /\ AllNumbers) => BoundsAreMinMax
    /\ (writeRet = "ok" /\ Len(disk.bytes) >= HeaderSize) => HeaderHoldsBounds

\* a file written from the one point (+Inf, NaN, -Inf): the header gives
\* MaxFloat64 as the least X and Y and -MaxFloat64 as the greatest Y and Z
LoneInfinity ==
    /\ writeRet = "ok" /\ Len(disk.bytes) >= HeaderSize
    /\ writer.points = <<PtE>>
    /\ DiskHeader.MinX = MaxFloat64 /\ DiskHeader.MaxX = PosInf
    /\ DiskHeader.MinY = MaxFloat64 /\ DiskHeader.MaxY = NegMaxFloat64
    /\ DiskHeader.MinZ = NegInf /\ DiskHeader.MaxZ = NegMaxFloat64


\* C18: every successful Write of N points leaves a file whose header gives N as
\* the point count and as the points-by-return count, whose point record length
\* is the one of its point format (26 for format 2, 34 for format 3), and which
\* is 227 + record length * N bytes long.
C18_CountAndLength ==
    [][(writeRet = "none" /\ writeRet' = "ok") =>
           /\ disk'.exists
           /\ Len(disk'.bytes) >= HeaderSize
           /\ Uint32(slice(disk'.bytes, 107, 111)) = Len(writer.points)
           /\ Uint32(slice(disk'.bytes, 111, 115)) = Len(writer.points)
           /\ at(disk'.bytes, 104) \in {2, 3}
           /\ at(disk'.bytes, 104) = 2 => Uint16(slice(disk'.bytes, 105, 107)) = RecordLength2
           /\ at(disk'.bytes, 104) = 3 => Uint16(slice(disk'.bytes, 105, 107)) = RecordLength3
           /\ Len(disk'.bytes)
                  = HeaderSize + Uint16(slice(disk'.bytes, 105, 107)) * Len(writer.points)
      ]_vars

\* two points written over a longer file that was at the path
C18_Witness ==
    /\ writeRet = "ok" /\ Len(writer.points) = 2
    /\ disk0.exists /\ Len(disk0.bytes) > HeaderSize + 2 * RecordLength3
    /\ Len(disk.bytes) = HeaderSize + 2 * RecordLength3
    /\ Uint32(slice(disk.bytes, 107, 111)) = 2
    /\ Uint32(slice(disk.bytes, 111, 115)) = 2
    /\ Uint16(slice(disk.bytes, 105, 107)) = RecordLength3


\* the source has the columns both steps of the pipeline ask for
PipeReady(source) ==
    /\ \A k \in 1..Len(required) : hasColumn(source.header, required[k])
    /\ \A k \in 1..Len(convRequired) : hasColumn(source.header, convRequired[k])

\* a row whose time stamp and numeric fields are all well-formed
WellFormed(source, i) ==
    /\ Len(source.rows[i]) = Len(source.header)
    /\ ~rowError(source.header, source.rows[i])

\* the name of the LAS artifact of a well-formed row
ArtifactOf(source, i) ==
    lasName(sanitizeFilename(generateFilename(
        parseDate(source.rows[i][colMap(source.header, ColTime)]).date,
        source.rows[i][colMap(source.header, ColDesignName)],
        normalizeAmp(source.rows[i][colMap(source.header, ColLastAmp)]))))

\* the well-formed rows of all sources of the input, as <<source, row>> indices
WellFormedRows ==
    {ki \in UNION {{<<k, i>> : i \in 1..Len(input.files[k].rows)} : k \in 1..Len(input.files)} :
        PipeReady(input.files[ki[1]]) /\ WellFormed(input.files[ki[1]], ki[2])}

\* C19: in skip mode the full pipeline skips a row whose time stamp or numeric
\* field is malformed, row by row, and still processes the remaining rows and
\* the remaining sources into artifacts: at the end of the run every well-formed
\* row of every source is a point of the LAS artifact of its group, which holds
\* as many points as there are well-formed rows of the group.
C19_SkipModeKeepsRows ==
    (ppc = "exit" /\ pipeSkipErrors) =>
        LET good == WellFormedRows
            name == [ki \in good |-> ArtifactOf(input.files[ki[1]], ki[2])]
        IN  \A ki \in good :
                /\ name[ki] \in DOMAIN lasDir
                /\ Len(lasDir[name[ki]]) = Cardinality({o \in good : name[o] = name[ki]})


\* C20: the encoder produces either record variant on request; for the variant
\* without time stamp the artifact has point format 2 and 26-byte records.
\* Write(filename) has no argument by which a variant could be chosen, so a
\* request for the variant without time stamp is served by the same code as any
\* other: every file Write has written would have to carry format 2 and record
\* length 26 in its header.
C20_WithoutTimestampVariant ==
    (writeRet = "ok" /\ Len(disk.bytes) >= HeaderSize) =>
        /\ DiskHeader.PointFormat = 2
        /\ DiskHeader.PointRecordLength = RecordLength2


\* C21: SortCSV on one source is all-or-nothing under every error that is not
\* skipped, a fault on an artifact during the write loop included: when the call
\* has returned, either all groups of the source are written or the artifacts of
\* the output directory are as they were before the call.
C21_AllOrNothing ==
    pc = "done" =>
        \/ ret = "ok" /\ todo = {}
        \/ DirUntouched

\* the three stored integer coordinates of record i of a written file
StoredX(i) == Int32(slice(RecordAt(i, RecordLength3), 0, 4))
StoredY(i) == Int32(slice(RecordAt(i, RecordLength3), 4, 8))
StoredZ(i) == Int32(slice(RecordAt(i, RecordLength3), 8, 12))

\* a stored coordinate is the float64 quotient (value - minimum) / 0.001 cut to a
\* whole number, which is not negative and fits a signed 32-bit integer
InRange(stored, value, minimum) ==
    /\ stored.hi >= 0
    /\ ~IsInf(truncQuotient(value, minimum)) /\ ~IsNaN(truncQuotient(value, minimum))
    /\ truncQuotient(value, minimum).hi <= 32767
    /\ stored = truncQuotient(value, minimum)

\* C22: for every point written and every axis, the stored integer coordinate
\* is not negative and fits a signed 32-bit integer: 0 <= (value - minimum of
\* the axis) / 0.001 <= 2^31 - 1, however far the coordinates are spread.
C22_StoredCoordinateInRange ==
    Intact =>
        \A i \in 1..Len(writer.points) :
            /\ InRange(StoredX(i), writer.points[i].X, writer.minX)
            /\ InRange(StoredY(i), writer.points[i].Y, writer.minY)
            /\ InRange(StoredZ(i), writer.points[i].Z, writer.minZ)

\* 0 <= in - out < 0.001
TruncatedTowardZero(in, out) ==
    IF IsGrid(in) /\ IsGrid(out)
    THEN ~FloatLess(in, out) /\ FloatLess(FloatSub(in, out), xScale)
    ELSE ~IsNaN(in) /\ ~IsInf(in) /\ in = out

\* C23: the stored coordinate is (value - offset) / scale cut toward zero, not
\* rounded to nearest: for every point and axis the decoded coordinate is never
\* greater than the original, and original - decoded lies in [0, scale).
C23_DecodedNotAboveOriginal ==
    (Intact /\ readRet.status = "ok") =>
        \A i \in 1..Len(writer.points) :
            i <= Len(readRet.points) =>
                /\ TruncatedTowardZero(writer.points[i].X, readRet.points[i].X)
                /\ TruncatedTowardZero(writer.points[i].Y, readRet.points[i].Y)
                /\ TruncatedTowardZero(writer.points[i].Z, readRet.points[i].Z)

(***************************************************************************)
(* package gui: Run.  The window keeps inputPath, outputPath, isDirectory  *)
(* and skipErrors in variables the callbacks share; the handler of         *)
(* processBtn starts a goroutine that runs the pipeline.  A goroutine      *)
(* moves from one file system call or window update to the next; between   *)
(* two of them the callbacks and the other goroutines may run.             *)
(*                                                                         *)
(* A path is given with what it names: [name, isDir, files], files being   *)
(* the source of a file, or the sources of the *.csv files of a folder in  *)
(* the order of filepath.Glob.  outputDir[d] is what lies under the folder *)
(* d: the bytes of err.log, the artifacts of d/csv and the files of d/las,  *)
(* a LAS file being the sequence of the blocks written to it.  The offset  *)
(* of a file handle counts bytes.                                          *)
(***************************************************************************)
NoPath == [name |-> <<>>, isDir |-> FALSE, files |-> <<>>]
NoLabel == [icon |-> "none", path |-> <<>>]

\* lines 354-356, 372, 469: the window as Run builds it
NewGui ==
    [inputPath |-> NoPath, outputPath |-> <<>>, isDirectory |-> FALSE,
     skipErrors |-> FALSE, inputLabel |-> NoLabel,
     statusLabel |-> "Ready to process", dialog |-> "none"]

EmptyOutputDir == [errLog |-> NoFile, csv |-> EmptyMap, las |-> EmptyMap]

\* the goroutine of lines 483-551 as it starts
NewTask ==
    [at |-> "log", errorLog |-> FALSE, logDir |-> <<>>, offset |-> 0,
     sortedDir |-> <<>>, lasDir |-> <<>>,
     isDir |-> FALSE, path |-> NoPath, skipOn |-> FALSE,
     inFolder |-> FALSE, pending |-> <<>>, base |-> <<>>,
     header |-> <<>>, groups |-> EmptyMap, todo |-> {}, key |-> NoKey,
     fileExists |-> FALSE, srcErr |-> FALSE, toLog |-> <<>>, err |-> FALSE,
     names |-> <<>>, points |-> <<>>, lasOffset |-> 0, logged |-> FALSE]

\* a byte no write has set: the file system reads it as zero
Nul == "NUL"

\* file.Write(new) through a handle whose file offset is off, in bytes: the
\* bytes that lie there are overwritten, one by one, and a write past the end
\* leaves a gap of zero bytes; a write of nothing leaves the file alone
writeAt(bytes, off, new) ==
    IF new = <<>> THEN bytes
    ELSE [i \in 1..(IF off + Len(new) > Len(bytes) THEN off + Len(new) ELSE Len(bytes)) |->
             IF i > off /\ i <= off + Len(new) THEN new[i - off]
             ELSE IF i <= Len(bytes) THEN bytes[i]
             ELSE Nul]

\* the block of a LAS file that starts at byte off: the header takes the first
\* 227 bytes and every point record 34 bytes, so all handles write their
\* blocks at the same offsets
blockAt(off) == IF off = 0 THEN 1 ELSE 2 + (off - HeaderSize) \div RecordLength3

\* file.Write(block) through a handle whose file offset is off, in bytes, on a
\* LAS file held as the sequence of its blocks; <<>> is a block of zero bytes
writeBlockAt(blocks, off, block) ==
    [i \in 1..(IF blockAt(off) > Len(blocks) THEN blockAt(off) ELSE Len(blocks)) |->
         IF i = blockAt(off) THEN block
         ELSE IF i <= Len(blocks) THEN blocks[i]
         ELSE <<>>]

\* strings.HasSuffix(strings.ToLower(path), ".csv")
hasCsvSuffix(name) ==
    Len(name) >= 4 /\ Fold(SubSeq(name, Len(name) - 3, Len(name))) = <<".", "c", "s", "v">>

\* filepath.Dir of a clean path: what stands before its last separator
Dir(name) ==
    IF \A i \in 1..Len(name) : name[i] # "/" THEN <<".">>
    ELSE IF (CHOOSE i \in 1..Len(name) :
                 name[i] = "/" /\ \A j \in (i + 1)..Len(name) : name[j] # "/") = 1
    THEN <<"/">>
    ELSE Take(name, (CHOOSE i \in 1..Len(name) :
                         name[i] = "/" /\ \A j \in (i + 1)..Len(name) : name[j] # "/") - 1)

\* filepath.Base of a clean path that names a file: what stands after its last
\* separator
Base(name) ==
    IF \A i \in 1..Len(name) : name[i] # "/" THEN name
    ELSE Drop(name, CHOOSE i \in 1..Len(name) :
                        name[i] = "/" /\ \A j \in (i + 1)..Len(name) : name[j] # "/")

\* the %d of fmt for a number that is not negative
RECURSIVE itoa(_)
itoa(n) == IF n < 10 THEN <<DigitChar(n)>> ELSE Append(itoa(n \div 10), DigitChar(n % 10))

\* time.quote, for text of printable ASCII characters: the quotation mark and
\* the backslash are escaped
RECURSIVE escaped(_)
escaped(s) ==
    IF s = <<>> THEN <<>>
    ELSE (IF Head(s) \in {"\"", "\\"} THEN <<"\\", Head(s)>> ELSE <<Head(s)>>)
             \o escaped(Tail(s))

quote(s) == <<"\"">> \o escaped(s) \o <<"\"">>

\* the layout "2006/Jan/02 15:04:05.999" in the chunks of time.nextStdChunk
layoutChunks ==
    << <<"2", "0", "0", "6">>, <<"/">>, <<"J", "a", "n">>, <<"/">>, <<"0", "2">>, <<" ">>,
       <<"1", "5">>, <<":">>, <<"0", "4">>, <<":">>, <<"0", "5">>, <<".", "9", "9", "9">> >>

\* time.Parse on chunk k of the layout, value being what is left to parse
chunkParse(k, value) ==
    IF k = 1 THEN getyear(value)
    ELSE IF k = 3 THEN lookupMonth(value)
    ELSE IF k = 5 THEN getnum(value, TRUE)
    ELSE IF k = 7 THEN getnum(value, FALSE)
    ELSE IF k \in {9, 11} THEN getnum(value, TRUE)
    ELSE IF k = 12 THEN [ok |-> TRUE, n |-> 0, rest |-> fracSecond9(value)]
    ELSE skip(value, layoutChunks[k][1])

\* rangeErrString of the chunks stdHour, stdZeroMinute and stdZeroSecond
rangeErrString(k) ==
    IF k = 7 THEN <<"h", "o", "u", "r">>
    ELSE IF k = 9 THEN <<"m", "i", "n", "u", "t", "e">>
    ELSE <<"s", "e", "c", "o", "n", "d">>

\* what ParseError.Error() says after the quoted value, for a value that
\* time.Parse refuses, from chunk k on: the chunk that cannot be parsed with
\* what was left of the value, a clock field out of range, text left over
\* after the last chunk, or a day the month does not have
RECURSIVE parseMessage(_, _)
parseMessage(value, k) ==
    IF k > Len(layoutChunks)
    THEN IF value # <<>>
         THEN <<":", " ", "e", "x", "t", "r", "a", " ", "t", "e", "x", "t", ":", " ">>
                  \o quote(value)
         ELSE <<":", " ", "d", "a", "y", " ", "o", "u", "t", " ", "o", "f", " ", "r", "a",
                   "n", "g", "e">>
    ELSE IF ~chunkParse(k, value).ok
    THEN <<" ", "a", "s", " ">> \o quote(Concat(layoutChunks))
             \o <<":", " ", "c", "a", "n", "n", "o", "t", " ", "p", "a", "r", "s", "e", " ">>
             \o quote(value) \o <<" ", "a", "s", " ">> \o quote(layoutChunks[k])
    ELSE IF k \in {7, 9, 11} /\ chunkParse(k, value).n >= (IF k = 7 THEN 24 ELSE 60)
    THEN <<":", " ">> \o rangeErrString(k)
             \o <<" ", "o", "u", "t", " ", "o", "f", " ", "r", "a", "n", "g", "e">>
    ELSE parseMessage(chunkParse(k, value).rest, k + 1)

\* sorter line 32: the error of parseDate for a time stamp time.Parse refuses
parseDateError(timeStr) ==
    <<"i", "n", "v", "a", "l", "i", "d", " ", "t", "i", "m", "e", " ", "f", "o",
                   "r", "m", "a", "t", ":", " ">>
        \o <<"p", "a", "r", "s", "i", "n", "g", " ", "t", "i", "m", "e", " ">> \o quote(timeStr)
        \o parseMessage(timeStr, 1)

\* csv.ParseError.Error() for csv.ErrFieldCount in the record on a line
fieldCountError(line) ==
    <<"r", "e", "c", "o", "r", "d", " ", "o", "n", " ", "l", "i", "n", "e", " ">> \o itoa(line)
        \o <<":", " ", "w", "r", "o", "n", "g", " ", "n", "u", "m", "b", "e", "r", " ",
                   "o", "f", " ", "f", "i", "e", "l", "d", "s">>

\* sorter lines 110-115: the error for the first required column the header lacks
missingColumnError(header) ==
    <<"m", "i", "s", "s", "i", "n", "g", " ", "r", "e", "q", "u", "i", "r", "e",
                   "d", " ", "c", "o", "l", "u", "m", "n", ":", " ">>
        \o required[CHOOSE k \in 1..Len(required) :
                        /\ ~hasColumn(header, required[k])
                        /\ \A j \in 1..(k - 1) : hasColumn(header, required[j])]

\* sorter lines 148, 171, 232 and 273: the text one fmt.Fprintf writes to the
\* log for a source with the base name base
logText(base, line) ==
    IF line.kind = "date"
    THEN <<"F", "i", "l", "e", ":", " ">> \o base
             \o <<",", " ", "R", "o", "w", " ", "i", "n", " ", "c", "h", "u", "n", "k", " ">> \o itoa(line.n)
             \o <<":", " ", "e", "r", "r", "o", "r", " ", "p", "a", "r", "s", "i", "n", "g",
                   " ", "d", "a", "t", "e", " ", "f", "r", "o", "m", " ", "'">>
             \o line.value \o <<"'", ":", " ">> \o parseDateError(line.value) \o <<"\n">>
    ELSE IF line.kind = "row"
    THEN <<"F", "i", "l", "e", ":", " ">> \o base \o <<",", " ", "R", "o", "w", " ">>
             \o itoa(line.n)
             \o <<":", " ", "e", "r", "r", "o", "r", " ", "r", "e", "a", "d", "i", "n", "g",
                   " ", "r", "o", "w", ":", " ">>
             \o fieldCountError(line.line) \o <<"\n">>
    ELSE IF line.kind = "total"
    THEN <<"F", "i", "l", "e", ":", " ">> \o base
             \o <<" ", "-", " ", "T", "o", "t", "a", "l", " ", "s", "k", "i", "p", "p", "e",
                   "d", " ", "r", "o", "w", "s", " ", "d", "u", "r", "i", "n", "g", " ", "s",
                   "o", "r", "t", "i", "n", "g", ":", " ">>
             \o itoa(line.n) \o <<"\n">>
    ELSE <<"E", "r", "r", "o", "r", " ", "p", "r", "o", "c", "e", "s", "s", "i", "n",
                   "g", " ">>
             \o base \o <<":", " ">> \o line.msg \o <<"\n">>

\* lines 383-392: the callback of showFileOrFolderDialog; lines 325 and 334 pass
\* false for a file and true for a folder
SelectInput(path, isDir) ==
    /\ gui' = [gui EXCEPT !.inputPath = path, !.isDirectory = isDir,
                          !.inputLabel = [icon |-> IF isDir THEN "folder" ELSE "file",
                                          path |-> path.name]]
    /\ UNCHANGED <<tasks, outputDir, kvars, svars, lvars, pvars, bvars>>

\* lines 421-431: the callback of the folder dialog of the output area
SelectOutput(name) ==
    /\ gui' = [gui EXCEPT !.outputPath = name]
    /\ UNCHANGED <<tasks, outputDir, kvars, svars, lvars, pvars, bvars>>

\* lines 574-620: a file or folder dropped on the upper half of the window; a
\* file whose name does not end in .csv is refused after inputPath and
\* isDirectory are set
DroppedOnInput(path) ==
    /\ gui' = IF ~path.isDir /\ ~hasCsvSuffix(path.name)
              THEN [gui EXCEPT !.inputPath = path, !.isDirectory = path.isDir,
                               !.dialog = "please drop a CSV file or folder"]
              ELSE [gui EXCEPT !.inputPath = path, !.isDirectory = path.isDir,
                               !.inputLabel = [icon |-> IF path.isDir THEN "folder" ELSE "file",
                                               path |-> path.name]]
    /\ UNCHANGED <<tasks, outputDir, kvars, svars, lvars, pvars, bvars>>

\* lines 574-594, 621-640: a file or folder dropped on the lower half
DroppedOnOutput(path) ==
    /\ gui' = [gui EXCEPT !.outputPath = IF path.isDir THEN path.name ELSE Dir(path.name)]
    /\ UNCHANGED <<tasks, outputDir, kvars, svars, lvars, pvars, bvars>>

\* lines 451-453: the check box
SkipErrorsChecked(checked) ==
    /\ gui' = [gui EXCEPT !.skipErrors = checked]
    /\ UNCHANGED <<tasks, outputDir, kvars, svars, lvars, pvars, bvars>>

\* lines 473-483: the handler of processBtn
ProcessBtnTapped ==
    /\ IF gui.inputPath.name = <<>> \/ gui.outputPath = <<>>
       THEN gui' = [gui EXCEPT !.dialog = "please select both input and output paths"]
            /\ tasks' = tasks
       ELSE gui' = [gui EXCEPT !.statusLabel = "Processing..."]
            /\ tasks' = Append(tasks, NewTask)
    /\ UNCHANGED <<outputDir, kvars, svars, lvars, pvars, bvars>>

\* sorter lines 130-172: the row loop of SortCSV from row i on;
\* st = [chunk, rowCount, skipped, groups, log] so far.  Row i stands on line
\* i + 1 of the file
RECURSIVE rowLoop(_, _, _, _)
rowLoop(source, i, skipOn, st) ==
    IF i > Len(source.rows)
    THEN LET res == IF Len(st.chunk) > 0
                    THEN processChunk(st.chunk, colMap(source.header, ColTime),
                                      colMap(source.header, ColDesignName),
                                      colMap(source.header, ColLastAmp),
                                      st.groups, skipOn, st.log)
                    ELSE [skipped |-> 0, err |-> FALSE, groups |-> st.groups, log |-> st.log]
         IN  IF res.err /\ ~skipOn
             THEN [err |-> TRUE, groups |-> EmptyMap, log |-> res.log]
             ELSE [err |-> FALSE, groups |-> res.groups,
                   log |-> IF skipOn /\ st.skipped + res.skipped > 0
                           THEN logLine(res.log, [kind |-> "total",
                                                  n |-> st.skipped + res.skipped])
                           ELSE res.log]
    ELSE IF Len(source.rows[i]) # Len(source.header)
    THEN IF skipOn
         THEN rowLoop(source, i + 1, skipOn,
                  [st EXCEPT !.skipped = @ + 1,
                             !.log = logLine(@, [kind |-> "row", n |-> st.rowCount + 2,
                                                 line |-> i + 1])])
         ELSE [err |-> TRUE, groups |-> EmptyMap, log |-> st.log]
    ELSE IF Len(st.chunk) + 1 >= ChunkSize
    THEN LET res == processChunk(Append(st.chunk, source.rows[i]),
                                 colMap(source.header, ColTime),
                                 colMap(source.header, ColDesignName),
                                 colMap(source.header, ColLastAmp),
                                 st.groups, skipOn, st.log)
         IN  IF res.err /\ ~skipOn
             THEN [err |-> TRUE, groups |-> EmptyMap, log |-> res.log]
             ELSE rowLoop(source, i + 1, skipOn,
                      [chunk |-> <<>>, rowCount |-> st.rowCount + 1,
                       skipped |-> st.skipped + res.skipped,
                       groups |-> res.groups, log |-> res.log])
    ELSE rowLoop(source, i + 1, skipOn,
             [st EXCEPT !.chunk = Append(@, source.rows[i]), !.rowCount = @ + 1])

\* sorter lines 75-172: SortCSV up to the end of its row loop, on a source that
\* can be read: the error, the groups and the lines for a log that is open or not
sortCSVRows(source, skipOn, open) ==
    IF \E k \in 1..Len(required) : ~hasColumn(source.header, required[k])
    THEN [err |-> TRUE, groups |-> EmptyMap, log |-> [open |-> open, lines |-> <<>>]]
    ELSE rowLoop(source, 1, skipOn,
             [chunk |-> <<>>, rowCount |-> 0, skipped |-> 0, groups |-> EmptyMap,
              log |-> [open |-> open, lines |-> <<>>]])

\* lines 506-511: the sort step has returned to the goroutine
sortEnd(t, err) ==
    [t EXCEPT !.err = err, !.at = "sorted", !.pending = <<>>, !.header = <<>>,
              !.base = <<>>, !.groups = EmptyMap, !.todo = {}, !.key = NoKey,
              !.fileExists = FALSE, !.srcErr = FALSE, !.toLog = <<>>]

\* sorter lines 269-278, gui lines 506-511: SortCSV has returned, with an error
\* or not; SortCSVDirectory logs the error of a source in skip mode and goes
\* on.  In skip mode the row loop returns no error, so the error is that of a
\* missing column
endSource(t, failed) ==
    IF ~t.inFolder THEN sortEnd(t, failed)
    ELSE IF failed /\ ~t.skipOn THEN sortEnd(t, TRUE)
    ELSE IF failed /\ t.errorLog
    THEN [t EXCEPT !.at = "logfile",
                   !.toLog = <<[kind |-> "file", msg |-> missingColumnError(t.header)]>>]
    ELSE IF t.pending = <<>> THEN sortEnd(t, FALSE)
    ELSE [t EXCEPT !.at = "source"]

\* sorter lines 175-218: after the row loop the range loop over the groups
\* begins, or SortCSV returns
afterRows(t) ==
    IF t.srcErr THEN endSource(t, TRUE)
    ELSE IF t.todo = {} THEN endSource(t, FALSE)
    ELSE [t EXCEPT !.at = "stat"]

\* the goroutine with the outcome res of the row loop of its next source
withRows(t, res) ==
    [t EXCEPT !.header = Head(t.pending).header,
              !.base = Base(Head(t.pending).name),
              !.srcErr = res.err,
              !.groups = res.groups,
              !.todo = DOMAIN res.groups,
              !.toLog = res.log.lines,
              !.pending = Tail(t.pending)]

\* lines 506-511, sorter lines 254-266: the call of the sort step with the
\* arguments the goroutine has read.  SortCSVDirectory on a file finds no CSV
\* files, as it does on a folder without any; SortCSV on a folder fails to
\* read it
callSort(t) ==
    IF t.isDir /\ t.path.isDir /\ t.path.files # <<>>
    THEN [t EXCEPT !.inFolder = TRUE, !.pending = t.path.files, !.at = "source"]
    ELSE IF t.isDir \/ t.path.isDir THEN sortEnd(t, TRUE)
    ELSE [t EXCEPT !.inFolder = FALSE, !.pending = t.path.files, !.at = "source"]

\* line 487: the goroutine reads skipErrors
TaskTestSkipErrors(t) ==
    /\ tasks[t].at = "log"
    /\ tasks' = [tasks EXCEPT ![t].at = IF gui.skipErrors THEN "logpath" ELSE "sortdir"]
    /\ UNCHANGED <<gui, outputDir, gestures, kvars, svars, lvars, pvars, bvars>>

\* line 488: it reads outputPath for the path of err.log
TaskLogPath(t) ==
    /\ tasks[t].at = "logpath"
    /\ tasks' = [tasks EXCEPT ![t].logDir = gui.outputPath, ![t].at = "logcreate"]
    /\ UNCHANGED <<gui, outputDir, gestures, kvars, svars, lvars, pvars, bvars>>

\* line 490: os.Create makes err.log, or cuts it to nothing, and returns a
\* handle whose offset is 0
TaskCreateLog(t) ==
    /\ tasks[t].at = "logcreate"
    /\ outputDir' = [outputDir EXCEPT
           ![tasks[t].logDir].errLog = [exists |-> TRUE, bytes |-> <<>>]]
    /\ tasks' = [tasks EXCEPT ![t].errorLog = TRUE, ![t].offset = 0, ![t].at = "loglbl"]
    /\ UNCHANGED <<gui, gestures, kvars, svars, lvars, pvars, bvars>>

\* line 498
TaskLogLabel(t) ==
    /\ tasks[t].at = "loglbl"
    /\ gui' = [gui EXCEPT !.statusLabel = "Error logging enabled"]
    /\ tasks' = [tasks EXCEPT ![t].at = "sortdir"]
    /\ UNCHANGED <<outputDir, gestures, kvars, svars, lvars, pvars, bvars>>

\* line 502: it reads outputPath for the folder of the sorted files
TaskSortedDir(t) ==
    /\ tasks[t].at = "sortdir"
    /\ tasks' = [tasks EXCEPT ![t].sortedDir = gui.outputPath, ![t].at = "step1"]
    /\ UNCHANGED <<gui, outputDir, gestures, kvars, svars, lvars, pvars, bvars>>

\* line 503
TaskStep1(t) ==
    /\ tasks[t].at = "step1"
    /\ gui' = [gui EXCEPT !.statusLabel = "Step 1/2: Sorting CSV files..."]
    /\ tasks' = [tasks EXCEPT ![t].at = "args"]
    /\ UNCHANGED <<outputDir, gestures, kvars, svars, lvars, pvars, bvars>>

\* lines 507-510: the goroutine reads isDirectory and inputPath, which the
\* callbacks write without synchronisation: the two reads may see the values
\* of different selections, in either order
TaskReadIsDirectory(t) ==
    /\ tasks[t].at \in {"args", "argDir"}
    /\ tasks' = [tasks EXCEPT ![t].isDir = gui.isDirectory,
                              ![t].at = IF tasks[t].at = "args" THEN "argPath" ELSE "argSkip"]
    /\ UNCHANGED <<gui, outputDir, gestures, kvars, svars, lvars, pvars, bvars>>

TaskReadInputPath(t) ==
    /\ tasks[t].at \in {"args", "argPath"}
    /\ tasks' = [tasks EXCEPT ![t].path = gui.inputPath,
                              ![t].at = IF tasks[t].at = "args" THEN "argDir" ELSE "argSkip"]
    /\ UNCHANGED <<gui, outputDir, gestures, kvars, svars, lvars, pvars, bvars>>

\* lines 508 and 510: it reads skipErrors, the third argument, and calls the
\* sort step
TaskReadSkipErrors(t) ==
    /\ tasks[t].at = "argSkip"
    /\ tasks' = [tasks EXCEPT ![t] = callSort([tasks[t] EXCEPT !.skipOn = gui.skipErrors])]
    /\ UNCHANGED <<gui, outputDir, gestures, kvars, svars, lvars, pvars, bvars>>

\* sorter lines 75-172: SortCSV opens and reads its source, checks the columns
\* and runs the row loop, up to its first write to the log or its first os.Stat
TaskSortSource(t) ==
    /\ tasks[t].at = "source"
    /\ tasks' = [tasks EXCEPT ![t] =
           IF withRows(tasks[t], sortCSVRows(Head(tasks[t].pending), tasks[t].skipOn,
                                             tasks[t].errorLog)).toLog # <<>>
           THEN [withRows(tasks[t], sortCSVRows(Head(tasks[t].pending), tasks[t].skipOn,
                                                tasks[t].errorLog)) EXCEPT !.at = "logw"]
           ELSE afterRows(withRows(tasks[t], sortCSVRows(Head(tasks[t].pending),
                                                         tasks[t].skipOn, tasks[t].errorLog)))]
    /\ UNCHANGED <<gui, outputDir, gestures, kvars, svars, lvars, pvars, bvars>>

\* the goroutine after its write of text to the log: the offset of its handle
\* has moved by the length of the text
afterLogWrite(t, text) ==
    IF Len(t.toLog) > 1
    THEN [t EXCEPT !.offset = @ + Len(text), !.toLog = Tail(@)]
    ELSE IF t.at = "logfile"
    THEN (IF t.pending = <<>>
          THEN sortEnd([t EXCEPT !.offset = @ + Len(text)], FALSE)
          ELSE [t EXCEPT !.offset = @ + Len(text), !.toLog = <<>>, !.at = "source"])
    ELSE afterRows([t EXCEPT !.offset = @ + Len(text), !.toLog = <<>>])

\* sorter lines 148, 171, 232 and 273: one fmt.Fprintf, which is one write of
\* its text through the task's handle on err.log, at the offset of the handle
TaskLogWrite(t) ==
    /\ tasks[t].at \in {"logw", "logfile"}
    /\ outputDir' = [outputDir EXCEPT ![tasks[t].logDir].errLog.bytes =
                         writeAt(@, tasks[t].offset,
                                 logText(tasks[t].base, Head(tasks[t].toLog)))]
    /\ tasks' = [tasks EXCEPT ![t] =
           afterLogWrite(tasks[t], logText(tasks[t].base, Head(tasks[t].toLog)))]
    /\ UNCHANGED <<gui, gestures, kvars, svars, lvars, pvars, bvars>>

\* the artifact of a group
ArtifactName(key) == sanitizeFilename(generateFilename(key.Date, key.DesignName, key.Amp))

\* sorter lines 175-183: the next group of the range loop and os.Stat of its artifact
TaskStat(t, key) ==
    /\ tasks[t].at = "stat"
    /\ key \in tasks[t].todo
    /\ tasks' = [tasks EXCEPT
           ![t].key = key,
           ![t].fileExists = ArtifactName(key) \in DOMAIN outputDir[tasks[t].sortedDir].csv,
           ![t].at = "open"]
    /\ UNCHANGED <<gui, outputDir, gestures, kvars, svars, lvars, pvars, bvars>>

\* sorter lines 186-189: os.OpenFile with O_CREATE|O_WRONLY|O_APPEND creates the
\* artifact, empty, if there is none
TaskOpenFile(t) ==
    /\ tasks[t].at = "open"
    /\ outputDir' = [outputDir EXCEPT ![tasks[t].sortedDir].csv =
           IF ArtifactName(tasks[t].key) \in DOMAIN @ THEN @
           ELSE @ @@ (ArtifactName(tasks[t].key) :> <<>>)]
    /\ tasks' = [tasks EXCEPT ![t].at = "flush"]
    /\ UNCHANGED <<gui, gestures, kvars, svars, lvars, pvars, bvars>>

\* sorter lines 192-215: the header if os.Stat found no file, then the rows,
\* stay in the buffer of the csv.Writer (4096 bytes, more than the rows of a
\* group take here) until Flush writes them, in one write that O_APPEND puts
\* at the end of the artifact
TaskFlush(t) ==
    /\ tasks[t].at = "flush"
    /\ outputDir' = [outputDir EXCEPT ![tasks[t].sortedDir].csv[ArtifactName(tasks[t].key)] =
           @ \o (IF tasks[t].fileExists THEN <<>> ELSE <<tasks[t].header>>)
             \o tasks[t].groups[tasks[t].key]]
    /\ tasks' = [tasks EXCEPT ![t] =
           IF tasks[t].todo = {tasks[t].key}
           THEN endSource([tasks[t] EXCEPT !.todo = {}], FALSE)
           ELSE [tasks[t] EXCEPT !.todo = @ \ {tasks[t].key}, !.at = "stat"]]
    /\ UNCHANGED <<gui, gestures, kvars, svars, lvars, pvars, bvars>>

\* line 513: the test of the error of the sort step; skipErrors is read where
\* there is an error
TaskSorted(t) ==
    /\ tasks[t].at = "sorted"
    /\ tasks' = [tasks EXCEPT ![t].at = IF tasks[t].err /\ ~gui.skipErrors
                                        THEN "sortdlg" ELSE "lasdir"]
    /\ UNCHANGED <<gui, outputDir, gestures, kvars, svars, lvars, pvars, bvars>>

\* line 515
TaskSortFailed(t) ==
    /\ tasks[t].at = "sortdlg"
    /\ gui' = [gui EXCEPT !.dialog = "sorting failed"]
    /\ tasks' = [tasks EXCEPT ![t].at = "sortlbl"]
    /\ UNCHANGED <<outputDir, gestures, kvars, svars, lvars, pvars, bvars>>

\* lines 516-517
TaskSortFailedLabel(t) ==
    /\ tasks[t].at = "sortlbl"
    /\ gui' = [gui EXCEPT !.statusLabel = "Error during sorting"]
    /\ tasks' = [tasks EXCEPT ![t].at = "done"]
    /\ UNCHANGED <<outputDir, gestures, kvars, svars, lvars, pvars, bvars>>

\* line 523: it reads outputPath for the folder of the LAS files
TaskLasDir(t) ==
    /\ tasks[t].at = "lasdir"
    /\ tasks' = [tasks EXCEPT ![t].lasDir = gui.outputPath, ![t].at = "step2"]
    /\ UNCHANGED <<gui, outputDir, gestures, kvars, svars, lvars, pvars, bvars>>

\* line 524
TaskStep2(t) ==
    /\ tasks[t].at = "step2"
    /\ gui' = [gui EXCEPT !.statusLabel = "Step 2/2: Converting to LAS..."]
    /\ tasks' = [tasks EXCEPT ![t].at = "glob"]
    /\ UNCHANGED <<outputDir, gestures, kvars, svars, lvars, pvars, bvars>>

\* converter lines 155-164: filepath.Glob over the sorted artifacts
TaskGlob(t) ==
    /\ tasks[t].at = "glob"
    /\ tasks' = [tasks EXCEPT
           ![t].names = Glob(outputDir[tasks[t].sortedDir].csv),
           ![t].at = IF DOMAIN outputDir[tasks[t].sortedDir].csv = {}
                     THEN "convdlg" ELSE "readcsv"]
    /\ UNCHANGED <<gui, outputDir, gestures, kvars, svars, lvars, pvars, bvars>>

\* converter lines 46-141, 166-173: the next artifact is read as it is now and
\* its rows are parsed
TaskReadCSV(t) ==
    /\ tasks[t].at = "readcsv"
    /\ tasks' = [tasks EXCEPT ![t] =
           IF ConvertCSVToLAS(outputDir[tasks[t].sortedDir].csv[Head(tasks[t].names)]).err
           THEN [tasks[t] EXCEPT !.at = "convdlg", !.names = <<>>]
           ELSE [tasks[t] EXCEPT
                    !.at = "create",
                    !.points = ConvertCSVToLAS(
                        outputDir[tasks[t].sortedDir].csv[Head(tasks[t].names)]).points]]
    /\ UNCHANGED <<gui, outputDir, gestures, kvars, svars, lvars, pvars, bvars>>

\* las/writer.go line 55: os.Create of the LAS file
TaskCreateLas(t) ==
    /\ tasks[t].at = "create"
    /\ outputDir' = [outputDir EXCEPT ![tasks[t].lasDir].las =
           IF lasName(Head(tasks[t].names)) \in DOMAIN @
           THEN [@ EXCEPT ![lasName(Head(tasks[t].names))] = <<>>]
           ELSE @ @@ (lasName(Head(tasks[t].names)) :> <<>>)]
    /\ tasks' = [tasks EXCEPT ![t].lasOffset = 0, ![t].at = "lashdr"]
    /\ UNCHANGED <<gui, gestures, kvars, svars, lvars, pvars, bvars>>

\* las/writer.go line 145: file.Write of the 227 bytes of the header, with the
\* number of points
TaskWriteHeader(t) ==
    /\ tasks[t].at = "lashdr"
    /\ outputDir' = [outputDir EXCEPT ![tasks[t].lasDir].las[lasName(Head(tasks[t].names))] =
           writeBlockAt(@, tasks[t].lasOffset, [NumberOfPoints |-> Len(tasks[t].points)])]
    /\ tasks' = [tasks EXCEPT ![t].lasOffset = @ + HeaderSize, ![t].at = "laspt"]
    /\ UNCHANGED <<gui, gestures, kvars, svars, lvars, pvars, bvars>>

\* las/writer.go line 188: one file.Write for the 34 bytes of the next point;
\* after the last one ConvertDirectory goes on to its next artifact or returns
TaskWritePoint(t) ==
    /\ tasks[t].at = "laspt"
    /\ outputDir' = [outputDir EXCEPT ![tasks[t].lasDir].las[lasName(Head(tasks[t].names))] =
           writeBlockAt(@, tasks[t].lasOffset, Head(tasks[t].points))]
    /\ tasks' = [tasks EXCEPT ![t] =
           IF Len(tasks[t].points) > 1
           THEN [tasks[t] EXCEPT !.lasOffset = @ + RecordLength3, !.points = Tail(@)]
           ELSE [tasks[t] EXCEPT
                    !.lasOffset = 0, !.points = <<>>, !.names = Tail(@),
                    !.at = IF Len(tasks[t].names) > 1 THEN "readcsv" ELSE "oklbl"]]
    /\ UNCHANGED <<gui, gestures, kvars, svars, lvars, pvars, bvars>>

\* lines 528-530: the dialog of a failed conversion
TaskConvertFailed(t) ==
    /\ tasks[t].at = "convdlg"
    /\ gui' = [gui EXCEPT !.dialog = "conversion failed"]
    /\ tasks' = [tasks EXCEPT ![t].at = "convlbl"]
    /\ UNCHANGED <<outputDir, gestures, kvars, svars, lvars, pvars, bvars>>

\* lines 531-532
TaskConvertFailedLabel(t) ==
    /\ tasks[t].at = "convlbl"
    /\ gui' = [gui EXCEPT !.statusLabel = "Error during conversion"]
    /\ tasks' = [tasks EXCEPT ![t].at = "done"]
    /\ UNCHANGED <<outputDir, gestures, kvars, svars, lvars, pvars, bvars>>

\* lines 535-536
TaskCompleteLabel(t) ==
    /\ tasks[t].at = "oklbl"
    /\ gui' = [gui EXCEPT !.statusLabel = "Complete!"]
    /\ tasks' = [tasks EXCEPT ![t].at = "okmsg"]
    /\ UNCHANGED <<outputDir, gestures, kvars, svars, lvars, pvars, bvars>>

\* lines 538-547: the message names the log if skipErrors is set now and a log
\* was created
TaskSuccessMessage(t) ==
    /\ tasks[t].at = "okmsg"
    /\ tasks' = [tasks EXCEPT ![t].logged = gui.skipErrors /\ tasks[t].errorLog,
                              ![t].at = "okdlg"]
    /\ UNCHANGED <<gui, outputDir, gestures, kvars, svars, lvars, pvars, bvars>>

\* lines 548-550
TaskSuccess(t) ==
    /\ tasks[t].at = "okdlg"
    /\ gui' = [gui EXCEPT !.dialog = IF tasks[t].logged THEN "Success, errors logged"
                                     ELSE "Success"]
    /\ tasks' = [tasks EXCEPT ![t].at = "done"]
    /\ UNCHANGED <<outputDir, gestures, kvars, svars, lvars, pvars, bvars>>

(***************************************************************************)
(* gui harness: a folder /in with CSV files and a text file, and an        *)
(* empty folder /out.  The user selects or drops an input and an output,   *)
(* sets the check box and taps processBtn up to MaxTaps times, at any      *)
(* moment.                                                                 *)
(***************************************************************************)
MaxTaps == 2
MaxGestures == 3

InName == <<"/", "i", "n">>
OutName == <<"/", "o", "u", "t">>

\* /in/b.csv: a row with a bad time stamp and a row that converts
GuiFileB ==
    [name |-> InName \o <<"/", "b", ".", "c", "s", "v">>, isDir |-> FALSE,
     files |-> <<[name |-> InName \o <<"/", "b", ".", "c", "s", "v">>,
                  header |-> PipeHeader, rows |-> <<PipeBadTime, PipeGood1>>]>>]
\* /in/n.txt: a row that converts
GuiFileN ==
    [name |-> InName \o <<"/", "n", ".", "t", "x", "t">>, isDir |-> FALSE,
     files |-> <<[name |-> InName \o <<"/", "n", ".", "t", "x", "t">>,
                  header |-> PipeHeader, rows |-> <<PipeGood1>>]>>]
\* /in: Glob finds a.csv, which has no LastAmp column either, and b.csv (n.txt
\* does not match *.csv)
GuiFolderIn ==
    [name |-> InName, isDir |-> TRUE,
     files |-> <<[name |-> InName \o <<"/", "a", ".", "c", "s", "v">>,
                  header |-> HeaderNoAmp, rows |-> <<>>]>> \o GuiFileB.files]
GuiFolderOut == [name |-> OutName, isDir |-> TRUE, files |-> <<>>]

GuiFiles == {GuiFileB, GuiFileN}
GuiFolders == {GuiFolderIn, GuiFolderOut}

GuiInit ==
    /\ KeyIdle
    /\ SortIdle
    /\ LasIdle
    /\ PipeIdle
    /\ CliIdle
    /\ gui = NewGui
    /\ tasks = <<>>
    /\ outputDir = [d \in {InName, OutName} |-> EmptyOutputDir]
    /\ gestures = 0

\* one more selection, drop or change of the check box
Gesture == gestures < MaxGestures /\ gestures' = gestures + 1

ChooseInput ==
    /\ Gesture
    /\ \/ \E p \in GuiFiles : SelectInput(p, FALSE)
       \/ \E p \in GuiFolders : SelectInput(p, TRUE)
ChooseOutput == Gesture /\ \E p \in GuiFolders : SelectOutput(p.name)
DropInput == Gesture /\ \E p \in GuiFiles \cup GuiFolders : DroppedOnInput(p)
DropOutput == Gesture /\ \E p \in GuiFiles \cup GuiFolders : DroppedOnOutput(p)
Check ==
    /\ Gesture
    /\ \E checked \in BOOLEAN : checked # gui.skipErrors /\ SkipErrorsChecked(checked)
Tap == Len(tasks) < MaxTaps /\ ProcessBtnTapped /\ UNCHANGED gestures
TestSkipErrors == \E t \in 1..Len(tasks) : TaskTestSkipErrors(t)
LogPath == \E t \in 1..Len(tasks) : TaskLogPath(t)
CreateLog == \E t \in 1..Len(tasks) : TaskCreateLog(t)
LogLabel == \E t \in 1..Len(tasks) : TaskLogLabel(t)
SortedDir == \E t \in 1..Len(tasks) : TaskSortedDir(t)
Step1 == \E t \in 1..Len(tasks) : TaskStep1(t)
ReadIsDirectory == \E t \in 1..Len(tasks) : TaskReadIsDirectory(t)
ReadInputPath == \E t \in 1..Len(tasks) : TaskReadInputPath(t)
ReadSkipErrors == \E t \in 1..Len(tasks) : TaskReadSkipErrors(t)
SortSource == \E t \in 1..Len(tasks) : TaskSortSource(t)
LogWrite == \E t \in 1..Len(tasks) : TaskLogWrite(t)
Stat == \E t \in 1..Len(tasks) : \E key \in tasks[t].todo : TaskStat(t, key)
OpenFile == \E t \in 1..Len(tasks) : TaskOpenFile(t)
Flush == \E t \in 1..Len(tasks) : TaskFlush(t)
Sorted == \E t \in 1..Len(tasks) : TaskSorted(t)
SortFailed == \E t \in 1..Len(tasks) : TaskSortFailed(t)
SortFailedLabel == \E t \in 1..Len(tasks) : TaskSortFailedLabel(t)
LasDir == \E t \in 1..Len(tasks) : TaskLasDir(t)
Step2 == \E t \in 1..Len(tasks) : TaskStep2(t)
GlobSorted == \E t \in 1..Len(tasks) : TaskGlob(t)
ReadCSV == \E t \in 1..Len(tasks) : TaskReadCSV(t)
CreateLas == \E t \in 1..Len(tasks) : TaskCreateLas(t)
WriteHeader == \E t \in 1..Len(tasks) : TaskWriteHeader(t)
WritePoint == \E t \in 1..Len(tasks) : TaskWritePoint(t)
ConvertFailed == \E t \in 1..Len(tasks) : TaskConvertFailed(t)
ConvertFailedLabel == \E t \in 1..Len(tasks) : TaskConvertFailedLabel(t)
CompleteLabel == \E t \in 1..Len(tasks) : TaskCompleteLabel(t)
SuccessMessage == \E t \in 1..Len(tasks) : TaskSuccessMessage(t)
Success == \E t \in 1..Len(tasks) : TaskSuccess(t)

GuiNext ==
    \/ ChooseInput
    \/ ChooseOutput
    \/ DropInput
    \/ DropOutput
    \/ Check
    \/ Tap
    \/ TestSkipErrors
    \/ LogPath
    \/ CreateLog
    \/ LogLabel
    \/ SortedDir
    \/ Step1
    \/ ReadIsDirectory
    \/ ReadInputPath
    \/ ReadSkipErrors
    \/ SortSource
    \/ LogWrite
    \/ Stat
    \/ OpenFile
    \/ Flush
    \/ Sorted
    \/ SortFailed
    \/ SortFailedLabel
    \/ LasDir
    \/ Step2
    \/ GlobSorted
    \/ ReadCSV
    \/ CreateLas
    \/ WriteHeader
    \/ WritePoint
    \/ ConvertFailed
    \/ ConvertFailedLabel
    \/ CompleteLabel
    \/ SuccessMessage
    \/ Success

SpecGui == GuiInit /\ [][GuiNext]_vars

\* the tasks that are running
Running == { t \in 1..Len(tasks) : tasks[t].at # "done" }

\* C24: at most one background pipeline task runs at any time: while a task
\* started by processBtn is still running no second task is started, so two
\* tasks never read, append to or create the same artifacts and err.log
\* concurrently.
C24_OneTaskAtATime == Cardinality(Running) <= 1

\* C25: in non-skip mode SortCSVDirectory processes the sources one after
\* another and, on the first source that fails, returns an error without
\* processing any later source, while the artifacts written by the sources
\* processed before it stay as those sources left them.
C25_FirstFailureStops ==
    [][(input.isDirectory /\ ~pipeSkipErrors /\ sortFailed)
           => /\ \A f \in DOMAIN dir0 : f \in DOMAIN dir /\ dir[f] = dir0[f]
              /\ pending' = pending /\ dirAt' = dirAt /\ dir' = dir
              /\ ppc' = "exit" /\ exitCode' = 1]_vars

\* C29: after any sequence of SortCSV runs of several sources into one output
\* directory, every data row of an artifact has as many fields, in the same
\* column order, as the header line of that artifact, also when the sources
\* have different column lists: the header of the source of every row is the
\* first record of the artifact.
C29_RowsMatchHeader ==
    (ppc # "off" /\ pc \in {"idle", "done"}) =>
        \A f \in DOMAIN dir :
            \A k \in 1..(Len(input.files) - Len(pending)) :
                (\E i \in 2..Len(dir[f]) : \E j \in 1..Len(input.files[k].rows) :
                     /\ dir[f][i] = input.files[k].rows[j]
                     /\ Len(dir[f][i]) = Len(input.files[k].header))
                    => dir[f][1] = input.files[k].header

(***************************************************************************)
(* The batch command line (package main with the flags -input, -output and *)
(* -skip-errors): every CSV file of the input directory is converted to a  *)
(* LAS file by convertCSVtoLAS, a converter of its own.                    *)
(***************************************************************************)
batchRequired == <<ColCellE, ColCellN, ColElevation, ColPassCount, ColTargPassCount>>

\* lines 141-195: the first field of the row that fails to parse, or "" if none
invalidField(header, row) ==
    IF parseFloat(row[colMap(header, ColCellE)]).err THEN "CellE_m"
    ELSE IF parseFloat(row[colMap(header, ColCellN)]).err THEN "CellN_m"
    ELSE IF parseFloat(row[colMap(header, ColElevation)]).err THEN "Elevation_m"
    ELSE IF atoiErr(row[colMap(header, ColPassCount)]) THEN "PassCount"
    ELSE IF atoiErr(row[colMap(header, ColTargPassCount)]) THEN "TargPassCount"
    ELSE ""

\* lines 197-212: the point of a row, with its colour
batchPoint(header, row) ==
    LET passCount == atoi(row[colMap(header, ColPassCount)]).n
        targPass == atoi(row[colMap(header, ColTargPassCount)]).n
    IN  [R |-> IF passCount < targPass THEN 65535 ELSE 0,
         G |-> IF passCount = targPass THEN 65535 ELSE 0,
         B |-> IF passCount > targPass THEN 65535 ELSE 0,
         Intensity |-> 0, Classification |-> 1]

\* lines 138-213: the loop over the data rows, from record i on
RECURSIVE batchRows(_, _, _, _)
batchRows(i, records, skipOn, st) ==
    IF i > Len(records) THEN st
    ELSE IF invalidField(records[1], records[i]) # ""
         THEN IF skipOn
              THEN batchRows(i + 1, records, skipOn,
                       [st EXCEPT !.skippedRows = @ + 1,
                                  !.log = logLine(@, [kind |-> invalidField(records[1], records[i]),
                                                      n |-> i])])
              ELSE [st EXCEPT !.err = TRUE]
         ELSE batchRows(i + 1, records, skipOn,
                  [st EXCEPT !.points = Append(@, batchPoint(records[1], records[i]))])

\* lines 105-245: convertCSVtoLAS on a file of records; Write fails without points
convertCSVtoLAS(records, skipOn, log) ==
    IF \E i \in 1..Len(records) : Len(records[i]) # Len(records[1])
    THEN [err |-> TRUE, points |-> <<>>, log |-> log]
    ELSE IF Len(records) < 2 THEN [err |-> TRUE, points |-> <<>>, log |-> log]
    ELSE IF \E k \in 1..Len(batchRequired) : ~hasColumn(records[1], batchRequired[k])
    THEN [err |-> TRUE, points |-> <<>>, log |-> log]
    ELSE LET st == batchRows(2, records, skipOn,
                       [err |-> FALSE, points |-> <<>>, skippedRows |-> 0, log |-> log])
             logged == IF skipOn /\ st.skippedRows > 0
                       THEN logLine(st.log, [kind |-> "skipped", n |-> st.skippedRows])
                       ELSE st.log
         IN  IF st.err THEN [err |-> TRUE, points |-> <<>>, log |-> st.log]
             ELSE IF st.points = <<>> THEN [err |-> TRUE, points |-> <<>>, log |-> logged]
             ELSE [err |-> FALSE, points |-> st.points, log |-> logged]

\* lines 20-25: the process as main starts: its flags, what the file system
\* answers (the input directory is there or not, MkdirAll and os.Create fail
\* or not) and the files that Glob finds in the input directory
NewCli(inDir, outDir, skipOn, exists, mkdirErr, createErr, csvFiles) ==
    [at |-> "main", inputDir |-> inDir, outputDir |-> outDir,
     skipErrors |-> skipOn, exists |-> exists, mkdirErr |-> mkdirErr,
     createErr |-> createErr, files |-> csvFiles,
     i |-> 0, errs |-> <<>>, successCount |-> 0, stdout |-> <<>>, stderr |-> <<>>,
     errorLog |-> NoLog, las |-> EmptyMap, exit |-> -1]

\* lines 27-77: usage, the input directory, the output directory, the list of
\* the files, the error log
CliMain ==
    /\ cli.at = "main"
    /\ cli' = IF cli.inputDir = "" \/ cli.outputDir = ""
              THEN [cli EXCEPT !.at = "exit", !.exit = 1, !.stdout = Append(@, "Usage")]
              ELSE IF ~cli.exists
              THEN [cli EXCEPT !.at = "exit", !.exit = 1,
                               !.stderr = Append(@, "Input directory does not exist")]
              ELSE IF cli.mkdirErr
              THEN [cli EXCEPT !.at = "exit", !.exit = 1,
                               !.stderr = Append(@, "Error creating output directory")]
              ELSE IF Len(cli.files) = 0
              THEN [cli EXCEPT !.at = "exit", !.exit = 0,
                               !.stdout = Append(@, "No CSV files found")]
              ELSE IF cli.skipErrors /\ cli.createErr
              THEN [cli EXCEPT !.at = "exit", !.exit = 1,
                               !.stdout = Append(@, "Found"),
                               !.stderr = Append(@, "Error creating error log file")]
              ELSE IF cli.skipErrors
              THEN [cli EXCEPT !.at = "loop", !.errorLog = OpenLog,
                               !.stdout = @ \o <<"Found", "Error logging enabled">>]
              ELSE [cli EXCEPT !.at = "loop", !.stdout = Append(@, "Found")]
    /\ UNCHANGED <<kvars, svars, lvars, pvars, gvars>>

\* lines 80-97: one iteration of the loop over the files
CliConvert ==
    /\ cli.at = "loop"
    /\ cli.i < Len(cli.files)
    /\ LET csvFile == cli.files[cli.i + 1]
           r == convertCSVtoLAS(<<csvFile.header>> \o csvFile.rows, cli.skipErrors,
                                cli.errorLog)
           counted == ~r.err \/ cli.skipErrors
       IN  cli' = [cli EXCEPT
               !.i = @ + 1,
               !.errs = Append(@, r.err),
               !.las = IF r.err THEN @ ELSE ((cli.i + 1) :> r.points) @@ @,
               !.errorLog = IF r.err THEN logLine(r.log, [kind |-> "file", n |-> cli.i + 1])
                            ELSE r.log,
               !.stdout = @ \o <<"Converting">>
                            \o (IF r.err THEN <<"FAILED">> ELSE <<>>)
                            \o (IF counted THEN <<"OK">> ELSE <<>>),
               !.successCount = IF counted THEN @ + 1 ELSE @]
    /\ UNCHANGED <<kvars, svars, lvars, pvars, gvars>>

\* lines 99-102: the report
CliReport ==
    /\ cli.at = "loop"
    /\ cli.i = Len(cli.files)
    /\ cli' = [cli EXCEPT !.at = "exit", !.exit = 0,
                          !.stdout = @ \o <<"Conversion complete!">>
                                       \o (IF cli.skipErrors /\ cli.errorLog.open
                                           THEN <<"Errors logged to">> ELSE <<>>)]
    /\ UNCHANGED <<kvars, svars, lvars, pvars, gvars>>

(***************************************************************************)
(* Batch harness: one run over a directory of up to MaxCliFiles files, the *)
(* rows drawn from a pool.                                                 *)
(***************************************************************************)
MaxCliFiles == 2
CliRowPool == {PipeGood1, PipeBadEasting}
CliSources ==
    { [header |-> PipeHeader, rows |-> rs] :
          rs \in UNION { [1..k -> CliRowPool] : k \in 0..MaxPipeRows } }
    \cup { [header |-> Header, rows |-> <<OtherColumnsRow>>] }

CliInit ==
    /\ KeyIdle
    /\ SortIdle
    /\ LasIdle
    /\ PipeIdle
    /\ GuiIdle
    /\ \E inDir \in {"", "in"}, outDir \in {"", "out"}, skipOn \in BOOLEAN,
          exists \in BOOLEAN, mkdirErr \in BOOLEAN, createErr \in BOOLEAN :
           \E csvFiles \in UNION { [1..k -> CliSources] : k \in 0..MaxCliFiles } :
               /\ (inDir = "" \/ ~exists) => csvFiles = <<>>
               /\ cli = NewCli(inDir, outDir, skipOn, exists, mkdirErr, createErr,
                               csvFiles)

CliNext ==
    \/ CliMain
    \/ CliConvert
    \/ CliReport

SpecCli == CliInit /\ [][CliNext]_vars

\* the files of the run, so far, whose conversion returned no error
Converted == { k \in 1..cli.i : ~cli.errs[k] }

\* C26: the number the batch command line reports as files successfully
\* converted is the number of input files whose conversion returned no error,
\* in skip-errors mode as in normal mode; a file whose conversion fails is never
\* counted or reported as OK.
C26_ReportedCount ==
    cli.at \in {"loop", "exit"} =>
        /\ cli.successCount = Cardinality(Converted)
        /\ Cardinality({ j \in 1..Len(cli.stdout) : cli.stdout[j] = "OK" })
               = Cardinality(Converted)

\* the records of the source that reader.Read returns without error
Readable == SelectSeq(src.rows, LAMBDA row : Len(row) = Len(src.header))

\* SortCSV's row loop with all rows in one single chunk: the rows are read, then
\* processChunk runs once on a fresh map of groups
OneChunk ==
    LET r == processChunk(Readable, colMap(src.header, ColTime),
                          colMap(src.header, ColDesignName),
                          colMap(src.header, ColLastAmp), EmptyMap, skipErrors, NoLog)
    IN  IF ~skipErrors /\ Len(Readable) < Len(src.rows)
        THEN [err |-> TRUE, groups |-> EmptyMap, skipped |-> 0]
        ELSE [err |-> r.err /\ ~skipErrors, groups |-> r.groups,
              skipped |-> r.skipped + Len(src.rows) - Len(Readable)]

\* C27: the grouping result does not depend on the chunk size: for every input
\* and every skip setting, the set of artifacts, the rows of each artifact with
\* their order, the count of skipped rows and the success or failure of SortCSV
\* are as if all rows were processed in one single chunk.
\* An artifact that several groups share is compared group by group: what was
\* written of the rows of a group is that group of the single chunk.
C27_ChunkSizeIndependent ==
    (pc = "done" /\ ~MissingColumn(src.header)) =>
        LET one == OneChunk
        IN  /\ (ret = "err") = one.err
            /\ ~one.err =>
                   /\ skippedRows = one.skipped
                   /\ groups = one.groups
                   /\ DOMAIN dir = DOMAIN dir0 \cup {ArtifactName(k) : k \in DOMAIN one.groups}
                   /\ \A k \in DOMAIN one.groups :
                          SelectSeq(Written(ArtifactName(k)),
                                    LAMBDA row : \E i \in 1..Len(one.groups[k]) :
                                                     one.groups[k][i] = row)
                              = one.groups[k]

\* SortCSV has succeeded in skip mode on a source of more rows than a chunk
\* holds: a row was skipped and a group holds rows of two chunks
C27_Witness ==
    /\ Finished /\ skipErrors
    /\ rowCount > chunkSize
    /\ skippedRows > 0
    /\ \E k \in DOMAIN groups : Len(groups[k]) >= 2

\* C28: ReadPoints is repeatable on one open reader: every call first seeks to
\* byte 227, so any number of consecutive calls on the same unchanged file
\* return the same result (the same points or the same error), whatever the
\* calls before.  Once a reader is open the file does not change, so no step
\* after a call has returned changes the result.
C28_ReadPointsRepeatable ==
    [][(readRet.status # "none" /\ rd.calls >= 1) => readRet' = readRet]_vars

\* ReadPoints has returned points twice on one reader of a file with records
C28_Witness ==
    /\ rd.calls = 2 /\ rd.open
    /\ readRet.status = "ok" /\ Len(readRet.points) >= 1

\* the index of the first row of the source with GroupKey k
FirstIndex(k) ==
    CHOOSE i \in 1..Len(src.rows) :
        /\ Accepted(src.rows[i]) /\ KeyOf(src.rows[i]) = k
        /\ \A j \in 1..(i - 1) : ~(Accepted(src.rows[j]) /\ KeyOf(src.rows[j]) = k)

\* the rows of the groups ks, group after group, the groups in the order in
\* which they first occur in the source
RECURSIVE InSourceOrder(_)
InSourceOrder(ks) ==
    IF ks = {} THEN <<>>
    ELSE LET k == CHOOSE c \in ks : \A o \in ks : FirstIndex(c) <= FirstIndex(o)
         IN  groups[k] \o InSourceOrder(ks \ {k})

\* C30: the output of SortCSV is deterministic: for a given source and a given
\* prior content of the output directory the content of every artifact (which
\* rows, in which order) is the same on every run, whatever the order in which
\* the groups map is iterated: what a run appends to an artifact is fixed by the
\* source alone (here: its groups in the order of the source).
C30_DeterministicOutput ==
    Finished =>
        \A f \in DOMAIN dir :
            Written(f) = InSourceOrder({k \in DOMAIN groups : ArtifactName(k) = f})

=============================================================================
